---- MODULE Spec2Model ----
(***************************************************************************)
(* A model of atomicparade/preen: the album generator generate_album.py,   *)
(* its predecessor generate-album.py and the gallery generator             *)
(* generate_gallery.py.                                                    *)
(*                                                                         *)
(* The module holds several specifications over disjoint groups of         *)
(* variables; a specification leaves the other groups in their idle state. *)
(*   SpecOrient   orient_image on labelled pixel grids                     *)
(*   SpecMeta     get_image_metadata / get_video_metadata on tag mappings  *)
(*   Spec         generate_album.py: generate_album run over a directory   *)
(*   SpecGallery  generate_gallery.py: main, Gallery and Album             *)
(*   SpecFit      fit_to_dimensions on sizes and bounds                    *)
(*   SpecSizes    generate_album.py run over one image of every small size *)
(***************************************************************************)
EXTENDS Integers, Sequences, FiniteSets, TLC

VARIABLES
    o_pc, o_image, o_orientation, o_result, o_second, o_back,
    m_pc, m_settings, m_metadata, m_sidecar, m_ctime, m_mtime, m_result,
    a_pc, a_run, a_config, a_dir, a_settings, a_idx, a_files, a_out, a_log, a_page, a_exc,
    g_pc, g_n, g_i, g_settings, g_config, g_subdirs, g_albums, g_generated, g_log, g_exc,
    g_album_settings,
    f_pc, f_width, f_height, f_max_width, f_max_height, f_result,
    e_pc, e_width, e_height, e_orientation, e_thumbnail_width, e_thumbnail_height,
    e_thumbnail, e_position, e_exc

varsOrient == <<o_pc, o_image, o_orientation, o_result, o_second, o_back>>

varsMeta == <<m_pc, m_settings, m_metadata, m_sidecar, m_ctime, m_mtime, m_result>>

varsAlbum ==
    <<a_pc, a_run, a_config, a_dir, a_settings, a_idx, a_files, a_out, a_log, a_page, a_exc>>

(***************************************************************************)
(* Python values.  An Optional[T] is the empty sequence (None) or a        *)
(* one-element sequence.                                                   *)
(***************************************************************************)
None == <<>>

Some(x) == <<x>>

IsNone(o) == o = <<>>

Get(o) == o[1]

(***************************************************************************)
(* Images.  An image is its width, its height and its pixels, px[r][c]     *)
(* being the pixel of row r (from the top) and column c (from the left).   *)
(***************************************************************************)
MaxDim == 3

MkImage(w, h, px) == [w |-> w, h |-> h, px |-> px]

\* A w x h image all of whose pixels differ: pixel (r, c) carries its own
\* position, so that every change of layout is observable.
LabelledImage(w, h) == MkImage(w, h, [r \in 1..h |-> [c \in 1..w |-> (r - 1) * w + c]])

\* PIL Image.transpose(Image.Transpose.FLIP_LEFT_RIGHT)
FLIP_LEFT_RIGHT(im) ==
    MkImage(im.w, im.h, [r \in 1..im.h |-> [c \in 1..im.w |-> im.px[r][im.w + 1 - c]]])

\* PIL Image.transpose(Image.Transpose.FLIP_TOP_BOTTOM)
FLIP_TOP_BOTTOM(im) ==
    MkImage(im.w, im.h, [r \in 1..im.h |-> [c \in 1..im.w |-> im.px[im.h + 1 - r][c]]])

\* PIL Image.transpose(Image.Transpose.ROTATE_90): 90 degrees counter-clockwise;
\* the right column of the source becomes the top row of the result.
ROTATE_90(im) ==
    MkImage(im.h, im.w, [r \in 1..im.w |-> [c \in 1..im.h |-> im.px[c][im.w + 1 - r]]])

\* PIL Image.transpose(Image.Transpose.ROTATE_180)
ROTATE_180(im) ==
    MkImage(im.w, im.h,
            [r \in 1..im.h |-> [c \in 1..im.w |-> im.px[im.h + 1 - r][im.w + 1 - c]]])

\* PIL Image.transpose(Image.Transpose.ROTATE_270): 270 degrees counter-clockwise,
\* that is 90 clockwise; the left column of the source becomes the top row.
ROTATE_270(im) ==
    MkImage(im.h, im.w, [r \in 1..im.w |-> [c \in 1..im.h |-> im.px[im.h + 1 - c][r]]])

\* `orientation in [..]` of Python: None is in no list.
InCodes(orientation, codes) == ~IsNone(orientation) /\ Get(orientation) \in codes

\* The mutant of is_sideways_orientation: the two plain quarter turns only.
is_sideways_orientation_unmirrored(orientation) == InCodes(orientation, {6, 8})

\* is_sideways_orientation
is_sideways_orientation(orientation) == InCodes(orientation, {5, 6, 7, 8})

\* The mutant of orient_image: the two quarter turns exchanged.
orient_image_rotations_swapped(image, orientation) ==
    LET i1 == IF InCodes(orientation, {2, 5, 7}) THEN FLIP_LEFT_RIGHT(image) ELSE image
        i2 == IF InCodes(orientation, {4}) THEN FLIP_TOP_BOTTOM(i1) ELSE i1
        i3 == IF InCodes(orientation, {5, 8}) THEN ROTATE_270(i2) ELSE i2
        i4 == IF InCodes(orientation, {3}) THEN ROTATE_180(i3) ELSE i3
        i5 == IF InCodes(orientation, {6, 7}) THEN ROTATE_90(i4) ELSE i4
    IN  i5

\* The mutant of orient_image: code 8 turned the way of code 6.
orient_image_eight_as_six(image, orientation) ==
    LET i1 == IF InCodes(orientation, {2, 5, 7}) THEN FLIP_LEFT_RIGHT(image) ELSE image
        i2 == IF InCodes(orientation, {4}) THEN FLIP_TOP_BOTTOM(i1) ELSE i1
        i3 == IF InCodes(orientation, {5}) THEN ROTATE_90(i2) ELSE i2
        i4 == IF InCodes(orientation, {3}) THEN ROTATE_180(i3) ELSE i3
        i5 == IF InCodes(orientation, {6, 7, 8}) THEN ROTATE_270(i4) ELSE i4
    IN  i5

\* orient_image: the five `if`s in the order of the code.
orient_image(image, orientation) ==
    LET i1 == IF InCodes(orientation, {2, 5, 7}) THEN FLIP_LEFT_RIGHT(image) ELSE image
        i2 == IF InCodes(orientation, {4}) THEN FLIP_TOP_BOTTOM(i1) ELSE i1
        i3 == IF InCodes(orientation, {5, 8}) THEN ROTATE_90(i2) ELSE i2
        i4 == IF InCodes(orientation, {3}) THEN ROTATE_180(i3) ELSE i3
        i5 == IF InCodes(orientation, {6, 7}) THEN ROTATE_270(i4) ELSE i4
    IN  i5

\* The orientation values tried: absent, the eight EXIF codes, and the
\* integers 0 and 9 that are no EXIF code.
OrientationInputs == {None} \cup {Some(c) : c \in 0..9}

NoImage == [w |-> 0, h |-> 0, px |-> <<>>]

OrientIdle ==
    /\ o_pc = "idle"
    /\ o_image = NoImage
    /\ o_orientation = None
    /\ o_result = NoImage
    /\ o_second = None
    /\ o_back = NoImage

OrientInit ==
    /\ o_pc = "start"
    /\ \E w \in 1..MaxDim, h \in 1..MaxDim : o_image = LabelledImage(w, h)
    /\ o_orientation \in OrientationInputs
    /\ o_result = NoImage
    /\ o_second = None
    /\ o_back = NoImage

\* image = orient_image(image, metadata.orientation)
OrientImage ==
    /\ o_pc = "start"
    /\ o_result' = orient_image(o_image, o_orientation)
    /\ o_pc' = "oriented"
    /\ UNCHANGED <<o_image, o_orientation, o_second, o_back>>

\* orient_image called on the image that orient_image returned, with any
\* orientation.
OrientImageAgain ==
    /\ o_pc = "oriented"
    /\ \E orientation \in OrientationInputs :
          /\ o_second' = orientation
          /\ o_back' = orient_image(o_result, orientation)
    /\ o_pc' = "reoriented"
    /\ UNCHANGED <<o_image, o_orientation, o_result>>

(***************************************************************************)
(* Metadata.  read_metadata returns a mapping from tag keys to values.  A  *)
(* value is a Python str, or the dict that pyexiv2 gives for an XMP        *)
(* language alternative.  The text of a str is a string for a caption or   *)
(* title, and a record of its parts where the code parses it: a timestamp  *)
(* (the form of its date, the instant it names, its UTC-offset suffix), a  *)
(* GPS coordinate (three components numerator/denominator) and a number.   *)
(***************************************************************************)
Str(s) == [isdict |-> FALSE, str |-> s, items |-> <<>>]

Dict(items) == [isdict |-> TRUE, str |-> "", items |-> items]

TitleKeysImage == <<"Xmp.dc.title", "Xmp.acdsee.caption", "Iptc.Application2.ObjectName">>

TitleKeysVideo == <<"Iptc.Application2.ObjectName", "Xmp.acdsee.caption", "Xmp.dc.title">>

TimestampKeys ==
    <<"Exif.Photo.DateTimeOriginal", "Exif.Image.DateTime", "Exif.Photo.DateTimeDigitized">>

LocationKeys ==
    <<"Exif.Image.ImageDescription", "Iptc.Application2.Caption", "Xmp.acdsee.notes",
      "Xmp.dc.description", "Xmp.exif.UserComment", "Xmp.tiff.ImageDescription">>

GpsKeys ==
    {"Exif.GPSInfo.GPSLatitudeRef", "Exif.GPSInfo.GPSLatitude",
     "Exif.GPSInfo.GPSLongitudeRef", "Exif.GPSInfo.GPSLongitude"}

OrientationKeys == <<"Exif.Image.Orientation">>

Range(seq) == {seq[i] : i \in 1..Len(seq)}

\* Exceptions: "" is normal completion.
NoExc == ""

\* get_first_existing_attr: the value of the first name of attr_names that is
\* a key of obj (the first value of a dict value), or None.  exc is IndexError
\* for a dict value that is empty.
get_first_existing_attr(obj, attr_names) ==
    LET present == {i \in 1..Len(attr_names) : attr_names[i] \in DOMAIN obj}
    IN  IF present = {} THEN [exc |-> NoExc, value |-> None]
        ELSE LET first == CHOOSE i \in present : \A j \in present : i <= j
                 v == obj[attr_names[first]]
             IN  IF v.isdict
                 THEN IF v.items = <<>> THEN [exc |-> "IndexError", value |-> None]
                      ELSE [exc |-> NoExc, value |-> Some(v.items[1])]
                 ELSE [exc |-> NoExc, value |-> Some(v.str)]

\* parse_gps_part: "n/d" is n / d, kept as the pair <<n, d>>.
parse_gps_part(part) == <<part[1], part[2]>>

\* get_gps_dms_form: degrees + minutes/60 + seconds/3600, decomposed again
\* into whole degrees, whole minutes and seconds with two decimals.  The
\* arithmetic is exact here (the code's is in floats): the sum is N / D.
get_gps_dms_form(coordinate) ==
    LET hours == parse_gps_part(coordinate[1])
        minutes == parse_gps_part(coordinate[2])
        seconds == parse_gps_part(coordinate[3])
        D == 3600 * hours[2] * minutes[2] * seconds[2]
        N == hours[1] * 3600 * minutes[2] * seconds[2]
             + minutes[1] * 60 * hours[2] * seconds[2]
             + seconds[1] * hours[2] * minutes[2]
        h == N \div D
        r1 == (N - h * D) * 60
        m == r1 \div D
        r2 == (r1 - m * D) * 60
        whole == r2 \div D
        part == r2 - whole * D
    IN  [deg |-> h, min |-> m, sec100 |-> whole * 100 + (2 * part * 100 + D) \div (2 * D)]

\* The text of a location: a caption, or the f-string of the two DMS forms
\* and their references.
CaptionText(s) == [caption |-> s, gps |-> <<>>]

GpsText(lat, latref, lon, lonref) == [caption |-> "", gps |-> <<lat, latref, lon, lonref>>]

\* RE_DATE_HAS_COLONS.search(timestamp_str)
RE_DATE_HAS_COLONS(ts) == ts.date = "colon"

\* RE_ENDS_WITH_OFFSET.search(timestamp_str)
RE_ENDS_WITH_OFFSET(ts) == ts.offset # ""

\* datetime.fromisoformat: raises ValueError unless the text is an ISO date
\* and time.
fromisoformat(ts) ==
    IF ts.date = "hyphen"
    THEN [exc |-> NoExc, value |-> Some([instant |-> ts.instant, offset |-> ts.offset])]
    ELSE [exc |-> "ValueError", value |-> None]

Min(a, b) == IF a <= b THEN a ELSE b

\* The mutant of timestamp_of: the fallback is the later of the two file
\* times.
timestamp_of_later_file_time(album_settings, tags, ctime, mtime) ==
    IF ~album_settings.show_timestamps THEN [exc |-> NoExc, value |-> None]
    ELSE LET got == get_first_existing_attr(tags, TimestampKeys)
         IN  IF got.exc # NoExc THEN got
             ELSE IF ~IsNone(got.value)
             THEN LET s0 == Get(got.value)
                      s1 == IF RE_DATE_HAS_COLONS(s0) THEN [s0 EXCEPT !.date = "hyphen"] ELSE s0
                      s2 == IF ~RE_ENDS_WITH_OFFSET(s1)
                            THEN [s1 EXCEPT !.offset = album_settings.default_time_offset]
                            ELSE s1
                  IN  fromisoformat(s2)
             ELSE [exc |-> NoExc,
                   value |-> Some([instant |-> IF ctime <= mtime THEN mtime ELSE ctime,
                                   offset |-> "+00:00"])]

\* The timestamp block shared by get_image_metadata and get_video_metadata.
timestamp_of(album_settings, tags, ctime, mtime) ==
    IF ~album_settings.show_timestamps THEN [exc |-> NoExc, value |-> None]
    ELSE LET got == get_first_existing_attr(tags, TimestampKeys)
         IN  IF got.exc # NoExc THEN got
             ELSE IF ~IsNone(got.value)
             THEN LET s0 == Get(got.value)
                      s1 == IF RE_DATE_HAS_COLONS(s0) THEN [s0 EXCEPT !.date = "hyphen"] ELSE s0
                      s2 == IF ~RE_ENDS_WITH_OFFSET(s1)
                            THEN [s1 EXCEPT !.offset = album_settings.default_time_offset]
                            ELSE s1
                  IN  fromisoformat(s2)
             ELSE [exc |-> NoExc,
                   value |-> Some([instant |-> Min(ctime, mtime), offset |-> "+00:00"])]

\* The mutant of location_of: the GPS fallback asks for the two coordinates
\* only, not for their references.
location_of_without_refs(album_settings, tags) ==
    IF album_settings.strip_gps_data THEN [exc |-> NoExc, value |-> None]
    ELSE LET got == get_first_existing_attr(tags, LocationKeys)
         IN  IF got.exc # NoExc THEN got
             ELSE IF /\ IsNone(got.value)
                     /\ "Exif.GPSInfo.GPSLatitude" \in DOMAIN tags
                     /\ "Exif.GPSInfo.GPSLongitude" \in DOMAIN tags
             THEN [exc |-> NoExc,
                   value |-> Some(GpsText(
                       get_gps_dms_form(tags["Exif.GPSInfo.GPSLatitude"].str),
                       IF "Exif.GPSInfo.GPSLatitudeRef" \in DOMAIN tags
                       THEN tags["Exif.GPSInfo.GPSLatitudeRef"].str ELSE "",
                       get_gps_dms_form(tags["Exif.GPSInfo.GPSLongitude"].str),
                       IF "Exif.GPSInfo.GPSLongitudeRef" \in DOMAIN tags
                       THEN tags["Exif.GPSInfo.GPSLongitudeRef"].str ELSE ""))]
             ELSE IF IsNone(got.value) THEN got
             ELSE [exc |-> NoExc, value |-> Some(CaptionText(Get(got.value)))]

\* The location block shared by get_image_metadata and get_video_metadata.
location_of(album_settings, tags) ==
    IF album_settings.strip_gps_data THEN [exc |-> NoExc, value |-> None]
    ELSE LET got == get_first_existing_attr(tags, LocationKeys)
         IN  IF got.exc # NoExc THEN got
             ELSE IF /\ IsNone(got.value)
                     /\ "Exif.GPSInfo.GPSLatitudeRef" \in DOMAIN tags
                     /\ "Exif.GPSInfo.GPSLatitude" \in DOMAIN tags
                     /\ "Exif.GPSInfo.GPSLongitudeRef" \in DOMAIN tags
                     /\ "Exif.GPSInfo.GPSLongitude" \in DOMAIN tags
             THEN [exc |-> NoExc,
                   value |-> Some(GpsText(
                       get_gps_dms_form(tags["Exif.GPSInfo.GPSLatitude"].str),
                       tags["Exif.GPSInfo.GPSLatitudeRef"].str,
                       get_gps_dms_form(tags["Exif.GPSInfo.GPSLongitude"].str),
                       tags["Exif.GPSInfo.GPSLongitudeRef"].str))]
             ELSE IF IsNone(got.value) THEN got
             ELSE [exc |-> NoExc, value |-> Some(CaptionText(Get(got.value)))]

\* int(s): the number a decimal text names; ValueError for another text.
int(s) == IF s.digits THEN [exc |-> NoExc, value |-> Some(s.n)]
          ELSE [exc |-> "ValueError", value |-> None]

\* The orientation block of get_image_metadata.
orientation_of(tags) ==
    LET got == get_first_existing_attr(tags, OrientationKeys)
    IN  IF got.exc # NoExc \/ IsNone(got.value) THEN got ELSE int(Get(got.value))

\* A metadata record; exc names the exception that left the function instead.
NoMetadata ==
    [exc |-> NoExc, title |-> None, timestamp |-> None, location |-> None,
     orientation |-> None, width |-> None, height |-> None]

Raised(exc) == [NoMetadata EXCEPT !.exc = exc]

\* The first exception of a sequence of evaluated blocks, in program order.
FirstExc(results) ==
    IF \A i \in 1..Len(results) : results[i].exc = NoExc THEN NoExc
    ELSE results[CHOOSE i \in 1..Len(results) :
                     /\ results[i].exc # NoExc
                     /\ \A j \in 1..(i - 1) : results[j].exc = NoExc].exc

\* get_image_metadata; tags is the mapping that read_metadata(file_path)
\* returned (the local variable metadata of the code).
get_image_metadata(album_settings, tags, ctime, mtime) ==
    LET title == get_first_existing_attr(tags, TitleKeysImage)
        timestamp == timestamp_of(album_settings, tags, ctime, mtime)
        location == location_of(album_settings, tags)
        orientation == orientation_of(tags)
        exc == FirstExc(<<title, timestamp, location, orientation>>)
    IN  IF exc # NoExc THEN Raised(exc)
        ELSE [exc |-> NoExc, title |-> title.value, timestamp |-> timestamp.value,
              location |-> location.value, orientation |-> orientation.value,
              width |-> None, height |-> None]

\* The width/height block of get_video_metadata: both tags are assigned to
\* width, height stays None.
video_width_of(tags) ==
    LET w1 == IF "Exif.Image.ImageWidth" \in DOMAIN tags
              THEN int(tags["Exif.Image.ImageWidth"].str)
              ELSE [exc |-> NoExc, value |-> None]
    IN  IF w1.exc # NoExc THEN w1
        ELSE IF "Exif.Image.ImageHeight" \in DOMAIN tags
        THEN int(tags["Exif.Image.ImageHeight"].str)
        ELSE w1

\* get_video_metadata, on the sidecar file_path.xmp: read_metadata raises
\* RuntimeError when pyexiv2 cannot open it (sidecar = None: there is none).
get_video_metadata(album_settings, sidecar, ctime, mtime) ==
    IF IsNone(sidecar) THEN Raised("RuntimeError")
    ELSE LET metadata == Get(sidecar)
             title == get_first_existing_attr(metadata, TitleKeysVideo)
             timestamp == timestamp_of(album_settings, metadata, ctime, mtime)
             location == location_of(album_settings, metadata)
             width == video_width_of(metadata)
             exc == FirstExc(<<title, timestamp, location, width>>)
         IN  IF exc # NoExc THEN Raised(exc)
             ELSE [exc |-> NoExc, title |-> title.value, timestamp |-> timestamp.value,
                   location |-> location.value, orientation |-> None,
                   width |-> width.value, height |-> None]

\* AlbumSettings() of generate_album.py; the gallery title is a text like a
\* file name, here the empty one.
AlbumSettingsDefault ==
    [gallery_title |-> <<>>, max_width |-> None, max_height |-> None,
     thumbnail_width |-> 100, thumbnail_height |-> 100, strip_gps_data |-> TRUE,
     default_time_offset |-> "+00:00", show_timestamps |-> TRUE, sort_key |-> "timestamp"]

(***************************************************************************)
(* The tag mappings tried.                                                 *)
(***************************************************************************)
MaxInstant == 2

\* The functions from a subset of keys to the value that valueOf gives each.
Mappings(keys, valueOf) == {[k \in dom |-> valueOf[k]] : dom \in SUBSET keys}

\* A caption per location key, each different, so that the key a location
\* came from shows in the record.
CaptionOf ==
    [k \in Range(LocationKeys) |->
        Str(CASE k = "Exif.Image.ImageDescription" -> "exif description"
              [] k = "Iptc.Application2.Caption" -> "iptc caption"
              [] k = "Xmp.acdsee.notes" -> "acdsee notes"
              [] k = "Xmp.dc.description" -> "dc description"
              [] k = "Xmp.exif.UserComment" -> "user comment"
              [] OTHER -> "tiff description")]

\* 40 deg 30' 0" N, 73 deg 59' 30.5" W
GpsOf ==
    [k \in GpsKeys |->
        Str(CASE k = "Exif.GPSInfo.GPSLatitude" -> <<<<40, 1>>, <<30, 1>>, <<0, 1>>>>
              [] k = "Exif.GPSInfo.GPSLatitudeRef" -> "N"
              [] k = "Exif.GPSInfo.GPSLongitude" -> <<<<73, 1>>, <<59, 1>>, <<3050, 100>>>>
              [] OTHER -> "W")]

LocationMappings ==
    {c @@ g : c \in Mappings(Range(LocationKeys), CaptionOf), g \in Mappings(GpsKeys, GpsOf)}

\* The texts of a timestamp tag: a date with colons or hyphens or no valid
\* date at all, with or without a UTC offset.
TimestampTexts ==
    [date : {"colon", "hyphen", "invalid"}, instant : 1..MaxInstant, offset : {"", "+01:00"}]

\* No timestamp tag, or the first of the three with a text that has no
\* offset: a date with colons, or no valid date.
TimestampMappings ==
    {<<>>} \cup {[k \in {TimestampKeys[1]} |-> Str(t)] :
                     t \in {x \in TimestampTexts :
                                x.instant = 1 /\ x.offset = "" /\ x.date # "hyphen"}}

MetaIdle ==
    /\ m_pc = "idle"
    /\ m_settings = AlbumSettingsDefault
    /\ m_metadata = <<>>
    /\ m_sidecar = FALSE
    /\ m_ctime = 0
    /\ m_mtime = 0
    /\ m_result = NoMetadata

MetaInit ==
    /\ m_pc = "start"
    /\ \E strip \in BOOLEAN, show \in BOOLEAN :
           m_settings = [AlbumSettingsDefault EXCEPT !.strip_gps_data = strip,
                                                     !.show_timestamps = show]
    /\ \E l \in LocationMappings, t \in TimestampMappings : m_metadata = l @@ t
    /\ m_sidecar \in BOOLEAN
    /\ m_ctime = 1
    /\ m_mtime \in 1..MaxInstant
    /\ m_result = NoMetadata

\* The functions from a subset of keys to one of the values that valuesOf
\* gives each.
Choices(keys, valuesOf) ==
    UNION {{f \in [dom -> UNION {valuesOf[k] : k \in dom}] : \A k \in dom : f[k] \in valuesOf[k]} :
               dom \in SUBSET keys}

\* The text of a title is the sequence of its characters.  A title per key,
\* each with its own letter: as it is and between spaces; Xmp.dc.title is a
\* language alternative, a dict for pyexiv2, and may also be one space.
TitleValues ==
    [k \in Range(TitleKeysImage) |->
        CASE k = "Xmp.dc.title" -> {Dict(<<t>>) : t \in {<<"d">>, <<" ", "d", " ">>, <<" ">>}}
          [] k = "Xmp.acdsee.caption" -> {Str(t) : t \in {<<"c">>, <<" ", "c", " ">>}}
          [] OTHER -> {Str(t) : t \in {<<"o">>, <<" ", "o", " ">>}}]

TitleMappings == Choices(Range(TitleKeysImage), TitleValues)

\* A timestamp per key: Exif.Photo.DateTimeOriginal in either form of date,
\* with or without an offset, or with no valid date; the two other keys with
\* a later instant each, one without and one with an offset.
TimestampValues ==
    [k \in Range(TimestampKeys) |->
        CASE k = "Exif.Photo.DateTimeOriginal" ->
                 {Str(t) : t \in {x \in TimestampTexts :
                                      x.instant = 1 /\ (x.date = "invalid" => x.offset = "")}}
          [] k = "Exif.Image.DateTime" ->
                 {Str([date |-> "hyphen", instant |-> MaxInstant + 1, offset |-> ""])}
          [] OTHER -> {Str([date |-> "hyphen", instant |-> MaxInstant + 2, offset |-> "+01:00"])}]

TimestampTagMappings == Choices(Range(TimestampKeys), TimestampValues)

\* The text of a number: the number it names if it is decimal digits.
Digits(n) == [digits |-> TRUE, n |-> n]

NotDigits == [digits |-> FALSE, n |-> 0]

\* An Exif.Image.Orientation of 6, of 9, or of a text that is no number.
OrientationValues ==
    [k \in Range(OrientationKeys) |-> {Str(Digits(6)), Str(Digits(9)), Str(NotDigits)}]

OrientationMappings == Choices(Range(OrientationKeys), OrientationValues)

\* A file with title, timestamp and orientation tags; ctime and mtime are the
\* file's times as datetime.fromtimestamp reads them, on the local clock.
MetaInitTags ==
    /\ m_pc = "start"
    /\ \E show \in BOOLEAN :
           m_settings = [AlbumSettingsDefault EXCEPT !.show_timestamps = show,
                                                     !.default_time_offset = "+02:00"]
    /\ \E t \in TitleMappings, s \in TimestampTagMappings, o \in OrientationMappings :
           m_metadata = t @@ s @@ o
    /\ m_sidecar \in BOOLEAN
    /\ m_ctime \in 1..MaxInstant
    /\ m_mtime \in 1..MaxInstant
    /\ m_result = NoMetadata

\* metadata = get_image_metadata(album_settings, file_path), the file's own
\* tags being m_metadata
GetImageMetadata ==
    /\ m_pc = "start"
    /\ m_result' = get_image_metadata(m_settings, m_metadata, m_ctime, m_mtime)
    /\ m_pc' = "image"
    /\ UNCHANGED <<m_settings, m_metadata, m_sidecar, m_ctime, m_mtime>>

\* metadata = get_video_metadata(album_settings, file_path), the tags of the
\* sidecar, if there is one, being m_metadata
GetVideoMetadata ==
    /\ m_pc = "start"
    /\ m_result' = get_video_metadata(m_settings,
                                      IF m_sidecar THEN Some(m_metadata) ELSE None,
                                      m_ctime, m_mtime)
    /\ m_pc' = "video"
    /\ UNCHANGED <<m_settings, m_metadata, m_sidecar, m_ctime, m_mtime>>

(***************************************************************************)
(* generate_album.py: one directory of source files and its gallery/       *)
(* output directory.                                                       *)
(*                                                                         *)
(* A file name is the sequence of its dot-separated components, the last   *)
(* being its extension.  A source file has its name, whether PIL can       *)
(* identify it, the tags embedded in it, the tags of its .xmp sidecar (None *)
(* when there is no sidecar), its ctime and mtime and its pixel size.      *)
(***************************************************************************)
ImageExtensions == {"bmp", "gif", "jfif", "jpeg", "jpg", "png", "tif", "tiff", "tga", "webp"}

VideoExtensions == {"3gp", "avi", "m4v", "mp4", "mkv", "mov", "mpeg", "mpg", "webm", "wmv"}

\* re.IGNORECASE, on the extensions that occur in the model
Lower(ext) ==
    CASE ext = "JPG" -> "jpg"
      [] ext = "PNG" -> "png"
      [] ext = "MP4" -> "mp4"
      [] OTHER -> ext

Extension(name) == name[Len(name)]

\* is_image_file: RE_IMAGE_EXTENSION.search(str(file_path)) is not None
is_image_file(name) == Len(name) >= 2 /\ Lower(Extension(name)) \in ImageExtensions

\* is_video_file: RE_VIDEO_EXTENSION.search(str(file_path)) is not None
is_video_file(name) == Len(name) >= 2 /\ Lower(Extension(name)) \in VideoExtensions

(***************************************************************************)
(* Python floats in fit_to_dimensions.  width / height is an IEEE 754       *)
(* double: the quotient rounded to 53 significant bits.  The double of     *)
(* w / h is kept as w, h, the exponent t with 2^t <= w/h < 2^(t+1), and    *)
(* the rounding error r: with s = 52 - t the double is M / 2^s for the     *)
(* integer M nearest to w * 2^s / h, and r = M * h - w * 2^s, which is     *)
(* found from (w * 2^s) mod h.  r is 0 when the quotient is exact,         *)
(* positive when it was rounded up, negative when rounded down.            *)
(*                                                                         *)
(* A float that the code then floors or compares with an int is kept as    *)
(* the exact fraction num / den that it approximates and a nudge: -1 when  *)
(* num / den is an integer and the float is the double next below it, 1    *)
(* when it is the double next above, 0 otherwise.  The errors are far      *)
(* smaller than 1 / den, so the floor of a float whose fraction is no      *)
(* integer is the floor of the fraction.                                   *)
(***************************************************************************)
DoubleFractionBits == 52

RECURSIVE Pow2(_)
Pow2(n) == IF n = 0 THEN 1 ELSE 2 * Pow2(n - 1)

\* 2^s mod m
RECURSIVE PowMod2(_, _)
PowMod2(s, m) == IF s = 0 THEN 1 % m ELSE (2 * PowMod2(s - 1, m)) % m

RECURSIVE Log2Up(_, _)
Log2Up(w, h) == IF w < 2 * h THEN 0 ELSE 1 + Log2Up(w, 2 * h)

RECURSIVE Log2Down(_, _)
Log2Down(w, h) == IF w >= h THEN 0 ELSE Log2Down(2 * w, h) - 1

\* The t with 2^t <= w / h < 2^(t + 1)
FloorLog2(w, h) == IF w >= h THEN Log2Up(w, h) ELSE Log2Down(w, h)

\* The rounding error r of the double of w / h, from rho = (w * 2^s) mod h
RoundingError(h, rho) == IF rho = 0 THEN 0 ELSE IF 2 * rho < h THEN -rho ELSE h - rho

\* aspect_ratio = width / height
aspect_ratio(width, height) ==
    [w |-> width, h |-> height, t |-> FloorLog2(width, height),
     r |-> RoundingError(height,
               (width * PowMod2(DoubleFractionBits - FloorLog2(width, height), height))
                   % height)]

Float(num, den, nudge) == [num |-> num, den |-> den, nudge |-> nudge]

\* math.floor(x)
floor(x) ==
    IF x.nudge = -1 /\ x.num % x.den = 0 THEN x.num \div x.den - 1 ELSE x.num \div x.den

\* x > m, for an int m
GreaterThan(x, m) == x.num > m * x.den \/ (x.num = m * x.den /\ x.nudge = 1)

IsPow2(q) == q = Pow2(FloorLog2(q, 1))

\* x * 2^t <= y * 2^e and x * 2^t < y * 2^e, for e >= 0 and any integer t
LeqScaled(x, t, y, e) ==
    IF t >= 0 THEN x * Pow2(t) <= y * Pow2(e) ELSE x <= y * Pow2(e - t)

LessScaled(x, t, y, e) ==
    IF t >= 0 THEN x * Pow2(t) < y * Pow2(e) ELSE x < y * Pow2(e - t)

\* The double nearest to the integer q divided by the double a, where the
\* exact q comes of a's w / h: a double above w / h (r > 0) puts the
\* quotient below q, where the doubles are 2^(e-52) apart (half of that
\* below a power of two), and it rounds to q only if it is within half of
\* that; likewise above q for r < 0.
NudgeOfQuotient(a, q) ==
    IF a.r > 0
    THEN IF LeqScaled((IF IsPow2(q) THEN 4 ELSE 2) * q * a.r, a.t, a.w, FloorLog2(q, 1))
         THEN 0 ELSE -1
    ELSE IF LessScaled(2 * q * (-a.r), a.t, a.w, FloorLog2(q, 1)) THEN 0 ELSE 1

\* n / aspect_ratio, for an int n
divide(n, a) ==
    IF (n * a.h) % a.w # 0 \/ a.r = 0 THEN Float(n * a.h, a.w, 0)
    ELSE Float(n * a.h, a.w, NudgeOfQuotient(a, (n * a.h) \div a.w))

\* The double nearest to the integer n times the double a, where the exact
\* product with w / h is the integer q; a tie goes to q, whose significand
\* is even.
NudgeOfProduct(a, q) ==
    IF a.r > 0
    THEN IF LeqScaled(2 * q * a.r, a.t, a.w, FloorLog2(q, 1)) THEN 0 ELSE 1
    ELSE IF LeqScaled((IF IsPow2(q) THEN 4 ELSE 2) * q * (-a.r), a.t, a.w, FloorLog2(q, 1))
         THEN 0 ELSE -1

\* n * aspect_ratio, for an int n
multiply(n, a) ==
    IF (n * a.w) % a.h # 0 \/ a.r = 0 THEN Float(n * a.w, a.h, 0)
    ELSE Float(n * a.w, a.h, NudgeOfProduct(a, (n * a.w) \div a.h))

\* fit_to_dimensions, after its first `if`: height is an int or the float
\* max_width / aspect_ratio
fit_height(width, height1, max_height, a) ==
    IF ~IsNone(max_height) /\ GreaterThan(height1, Get(max_height))
    THEN <<floor(multiply(Get(max_height), a)), Get(max_height)>>
    ELSE <<width, floor(height1)>>

\* The mutant of fit_to_dimensions: the width pass leaves the height as it
\* is.
fit_to_dimensions_height_kept(width, height, max_width, max_height) ==
    IF ~IsNone(max_width) /\ width > Get(max_width)
    THEN fit_height(Get(max_width), Float(height, 1, 0), max_height,
                    aspect_ratio(width, height))
    ELSE fit_height(width, Float(height, 1, 0), max_height, aspect_ratio(width, height))

\* fit_to_dimensions
fit_to_dimensions(width, height, max_width, max_height) ==
    IF ~IsNone(max_width) /\ width > Get(max_width)
    THEN fit_height(Get(max_width), divide(Get(max_width), aspect_ratio(width, height)),
                    max_height, aspect_ratio(width, height))
    ELSE fit_height(width, Float(height, 1, 0), max_height, aspect_ratio(width, height))

varsFit == <<f_pc, f_width, f_height, f_max_width, f_max_height, f_result>>

\* The sizes and bounds tried: every side and bound up to MaxSide, and no
\* bound.
MaxSide == 18

Bounds == {None} \cup {Some(n) : n \in 1..MaxSide}

FitIdle ==
    /\ f_pc = "idle"
    /\ f_width = 0
    /\ f_height = 0
    /\ f_max_width = None
    /\ f_max_height = None
    /\ f_result = <<0, 0>>

FitInit ==
    /\ f_pc = "start"
    /\ f_width \in 1..MaxSide
    /\ f_height \in 1..MaxSide
    /\ f_max_width \in Bounds
    /\ f_max_height \in Bounds
    /\ f_result = <<0, 0>>

\* (final_width, final_height) = fit_to_dimensions(...)
FitToDimensions ==
    /\ f_pc = "start"
    /\ f_result' = fit_to_dimensions(f_width, f_height, f_max_width, f_max_height)
    /\ f_pc' = "fitted"
    /\ UNCHANGED <<f_width, f_height, f_max_width, f_max_height>>

\* math.floor(x / 2)
FloorHalf(x) == x \div 2

\* A file of the output directory: how many times it was written and when
\* last (the number of that write among all writes to the directory),
\* whether it carries GPS tags, the EXIF orientation it carries, its pixel
\* size and, for a thumbnail, where the resized image was pasted and how
\* large.
Artifact(gps, orientation, w, h, paste) ==
    [writes |-> 0, at |-> 0, gps |-> gps, orientation |-> orientation, w |-> w, h |-> h,
     paste |-> paste]

\* The number of the last write to the directory, 0 if it is empty.
LastWrite(out) ==
    IF DOMAIN out = {} THEN 0
    ELSE CHOOSE n \in {out[p].at : p \in DOMAIN out} : \A p \in DOMAIN out : out[p].at <= n

GalleryPath(name) == [dir |-> "gallery", name |-> name]

ThumbnailPath(name) == [dir |-> "gallery/thumbnails", name |-> name]

\* Writing a file: creates it or replaces its content.
WriteFile(out, path, artifact) ==
    (path :> [artifact EXCEPT !.writes = IF path \in DOMAIN out THEN out[path].writes + 1 ELSE 1,
                              !.at = LastWrite(out) + 1])
        @@ out

HasGpsTags(tags) == \E k \in DOMAIN tags : k \in GpsKeys

\* strip_gps_data(filename): exiftool -gps*= -overwrite_original
strip_gps_data(out, path) == WriteFile(out, path, [out[path] EXCEPT !.gps = FALSE])

\* urllib.parse.quote, on the name components that occur in the model: a
\* space becomes %20, the other characters are safe.
Quote(component) == IF component = "b c" THEN "b%20c" ELSE component

QuoteName(name) == [i \in 1..Len(name) |-> Quote(name[i])]

Url(dir, name) == [dir |-> dir, name |-> QuoteName(name)]

\* The result of processing one file: the exception that left the function
\* (or NoExc), the ImageFile / VideoFile returned (or None), the output
\* directory and the log afterwards.
Outcome(exc, file, out, log) == [exc |-> exc, file |-> file, out |-> out, log |-> log]

\* if final_height != image.height: image = image.resize(...)
resized(w, h, final) == IF final[2] # h THEN final ELSE <<w, h>>

\* image.resize(size) of Pillow raises ValueError ("height and width must
\* be > 0") for a size with a side below 1.
resize_raises(size) == size[1] < 1 \/ size[2] < 1

\* max_width, max_height = max_height, max_width for a sideways image, and
\* the call of fit_to_dimensions
final_size(album_settings, f, sideways) ==
    fit_to_dimensions(f.w, f.h,
        IF sideways THEN album_settings.max_height ELSE album_settings.max_width,
        IF sideways THEN album_settings.max_width ELSE album_settings.max_height)

\* The mutant of save_final: the image is saved as orient_image turns it.
save_final_oriented(album_settings, f, out, orientation, size) ==
    IF album_settings.strip_gps_data
    THEN strip_gps_data(WriteFile(out, GalleryPath(f.name),
                                  Artifact(HasGpsTags(f.tags), orientation,
                                           IF is_sideways_orientation(orientation)
                                           THEN size[2] ELSE size[1],
                                           IF is_sideways_orientation(orientation)
                                           THEN size[1] ELSE size[2], <<>>)),
                        GalleryPath(f.name))
    ELSE WriteFile(out, GalleryPath(f.name),
                   Artifact(HasGpsTags(f.tags), orientation,
                            IF is_sideways_orientation(orientation) THEN size[2] ELSE size[1],
                            IF is_sideways_orientation(orientation) THEN size[1] ELSE size[2],
                            <<>>))

\* image.save(final_path, exif=image.getexif()), then strip_gps_data
save_final(album_settings, f, out, orientation, size) ==
    IF album_settings.strip_gps_data
    THEN strip_gps_data(WriteFile(out, GalleryPath(f.name),
                                  Artifact(HasGpsTags(f.tags), orientation, size[1], size[2], <<>>)),
                        GalleryPath(f.name))
    ELSE WriteFile(out, GalleryPath(f.name),
                   Artifact(HasGpsTags(f.tags), orientation, size[1], size[2], <<>>))

\* image = orient_image(image, metadata.orientation): the size it has then
oriented_size(size, sideways) == IF sideways THEN <<size[2], size[1]>> ELSE size

\* the thumbnail: a canvas of the configured size with the fitted image
\* pasted at thumbnail_position
thumbnail_of(album_settings, thumb) ==
    Artifact(FALSE, None, album_settings.thumbnail_width, album_settings.thumbnail_height,
             <<FloorHalf(album_settings.thumbnail_width - thumb[1]),
               FloorHalf(album_settings.thumbnail_height - thumb[2]),
               thumb[1], thumb[2]>>)

\* The mutant of thumbnail_size: the two bounds exchanged.
thumbnail_size_bounds_exchanged(album_settings, size) ==
    fit_to_dimensions(size[1], size[2], Some(album_settings.thumbnail_height),
                      Some(album_settings.thumbnail_width))

\* fit_to_dimensions(image.width, image.height, thumbnail_width, thumbnail_height)
thumbnail_size(album_settings, size) ==
    fit_to_dimensions(size[1], size[2], Some(album_settings.thumbnail_width),
                      Some(album_settings.thumbnail_height))

\* process_image_file from the resize to the thumbnail size on; out holds
\* the saved image
process_saved_image(album_settings, f, out, log, md, thumb) ==
    IF resize_raises(thumb) THEN Outcome("ValueError", None, out, log)
    ELSE Outcome(NoExc,
                 Some([kind |-> "image", url |-> Url("", f.name),
                       thumbnail_url |-> Url("thumbnails", f.name),
                       filename |-> f.name, metadata |-> md]),
                 WriteFile(out, ThumbnailPath(f.name), thumbnail_of(album_settings, thumb)),
                 log)

\* process_image_file from the resize to the fitted size on
process_fitted_image(album_settings, f, out, log, md, final) ==
    IF final[2] # f.h /\ resize_raises(final) THEN Outcome("ValueError", None, out, log)
    ELSE process_saved_image(album_settings, f,
             save_final(album_settings, f, out, md.orientation, resized(f.w, f.h, final)),
             log, md,
             thumbnail_size(album_settings,
                            oriented_size(resized(f.w, f.h, final),
                                          is_sideways_orientation(md.orientation))))

process_opened_image(album_settings, f, out, log, md) ==
    IF md.exc # NoExc THEN Outcome(md.exc, None, out, log)
    ELSE process_fitted_image(album_settings, f, out, log, md,
             final_size(album_settings, f, is_sideways_orientation(md.orientation)))

\* process_image_file: an image Pillow cannot open is logged and given up
process_image_file(album_settings, f, out, log) ==
    IF ~f.readable
    THEN Outcome(NoExc, None, out, Append(log, <<"WARNING", f.name>>))
    ELSE process_opened_image(album_settings, f, out, log,
             get_image_metadata(album_settings, f.tags, f.ctime, f.mtime))

\* process_video_file: a RuntimeError of get_video_metadata is logged and
\* the file given up; the video is copied as it is (shutil.copy2); no
\* thumbnail is made and no GPS data stripped (both are TODO in the code).
process_video_file(album_settings, f, out, log) ==
    LET metadata == get_video_metadata(album_settings, f.sidecar, f.ctime, f.mtime)
    IN  IF metadata.exc = "RuntimeError"
        THEN Outcome(NoExc, None, out, Append(log, <<"WARNING", f.name>>))
        ELSE IF metadata.exc # NoExc THEN Outcome(metadata.exc, None, out, log)
        ELSE Outcome(NoExc,
                     Some([kind |-> "video", url |-> Url("", f.name),
                           thumbnail_url |-> Url("thumbnails", Append(f.name, "jpg")),
                           filename |-> f.name, metadata |-> metadata]),
                     WriteFile(out, GalleryPath(f.name),
                               Artifact(HasGpsTags(f.tags), None, f.w, f.h, <<>>)),
                     log)

\* datetime.now(timezone.utc): later than the instants of the model.
MaxNow == 9

\* The instant of an aware datetime: its local time less its UTC offset, in
\* hours.
OffsetHours(offset) == IF offset = "+01:00" THEN 1 ELSE 0

Utc(timestamp) == timestamp.instant - OffsetHours(timestamp.offset)

\* key=lambda file: file.metadata.timestamp or datetime.now(timezone.utc)
TimestampKey(file) ==
    IF IsNone(file.metadata.timestamp) THEN MaxNow ELSE Utc(Get(file.metadata.timestamp))

\* The order of str on file names, for the names of the model: by the rank
\* of the first component, then of the rest.
ComponentRank(c) ==
    CASE c = "a" -> 1
      [] c = "b c" -> 2
      [] c = "notes" -> 3
      [] c = "v" -> 4
      [] OTHER -> 5

FilenameKey(file) == ComponentRank(file.filename[1])

\* The mutant of Insert: x is put before the items whose key is equal.
RECURSIVE Insert_before_equal(_, _, _, _)
Insert_before_equal(sorted, keys, x, k) ==
    IF sorted = <<>> THEN <<x>>
    ELSE IF keys[Len(sorted)] < k THEN Append(sorted, x)
    ELSE Append(Insert_before_equal(SubSeq(sorted, 1, Len(sorted) - 1), keys, x, k),
                sorted[Len(sorted)])

\* list.sort(key=...): stable; Insert puts x after the items whose key is
\* not greater.
RECURSIVE Insert(_, _, _, _)
Insert(sorted, keys, x, k) ==
    IF sorted = <<>> THEN <<x>>
    ELSE IF keys[Len(sorted)] <= k THEN Append(sorted, x)
    ELSE Append(Insert(SubSeq(sorted, 1, Len(sorted) - 1), keys, x, k), sorted[Len(sorted)])

RECURSIVE SortBy(_, _)
SortBy(files, sort_key) ==
    IF files = <<>> THEN <<>>
    ELSE LET n == Len(files)
             head == SortBy(SubSeq(files, 1, n - 1), sort_key)
             keyOf(f) == IF sort_key = "timestamp" THEN TimestampKey(f) ELSE FilenameKey(f)
         IN  Insert(head, [i \in 1..Len(head) |-> keyOf(head[i])], files[n], keyOf(files[n]))

\* step 4 of generate_album: another sort_key leaves the order as it is
sort_files(files, sort_key) ==
    IF sort_key \in {"timestamp", "filename"} THEN SortBy(files, sort_key) ELSE files

\* get_image_html / get_video_html: the parts of a detail entry
detail_html(file, idx) ==
    [idx |-> idx, kind |-> file.kind, src |-> file.url,
     alt |-> IF file.kind # "image" THEN None
             ELSE IF ~IsNone(file.metadata.title) THEN file.metadata.title
             ELSE Some(file.filename),
     title |-> file.metadata.title, timestamp |-> file.metadata.timestamp,
     location |-> file.metadata.location]

\* write_gallery_file: the thumbnails of <nav> and the entries of #photos
write_gallery_file(album_settings, files) ==
    [title |-> album_settings.gallery_title,
     thumbnails |-> [i \in 1..Len(files) |->
                        [idx |-> i, src |-> files[i].thumbnail_url,
                         alt |-> IF ~IsNone(files[i].metadata.title)
                                 THEN files[i].metadata.title
                                 ELSE Some(album_settings.gallery_title),
                         width |-> album_settings.thumbnail_width,
                         height |-> album_settings.thumbnail_height]],
     details |-> [i \in 1..Len(files) |-> detail_html(files[i], i)]]

\* step 1 of generate_album: album-settings.yaml, if present (config = None:
\* FileNotFoundError), laid over AlbumSettings()
SettingsKeys ==
    {"max_width", "max_height", "thumbnail_width", "thumbnail_height", "strip_gps_data",
     "default_time_offset", "show_timestamps", "sort_key"}

read_album_settings(config, image_dir_name) ==
    IF IsNone(config) THEN [AlbumSettingsDefault EXCEPT !.gallery_title = image_dir_name]
    ELSE LET settings == Get(config)
         IN  [k \in DOMAIN AlbumSettingsDefault |->
                 IF k = "gallery_title"
                 THEN IF k \in DOMAIN settings THEN settings[k] ELSE image_dir_name
                 ELSE IF k \in SettingsKeys /\ k \in DOMAIN settings THEN settings[k]
                 ELSE AlbumSettingsDefault[k]]

(***************************************************************************)
(* The directories tried.                                                  *)
(***************************************************************************)
MaxFiles == 2

MaxRuns == 2

BadTimestamp == [k \in {"Exif.Photo.DateTimeOriginal"} |->
                    Str([date |-> "invalid", instant |-> 1, offset |-> ""])]

AllGps == [k \in GpsKeys |-> GpsOf[k]]

Orientation6 == [k \in {"Exif.Image.Orientation"} |-> Str([digits |-> TRUE, n |-> 6])]

SourceFile(name, readable, tags, sidecar) ==
    [name |-> name, readable |-> readable, tags |-> tags, sidecar |-> sidecar,
     ctime |-> 2, mtime |-> 1, w |-> 4, h |-> 2]

SourceFiles ==
    {SourceFile(<<"a", "JPG">>, FALSE, <<>>, None)}
    \cup {SourceFile(<<"a", "JPG">>, TRUE, t, None) : t \in {<<>>, BadTimestamp, AllGps, Orientation6}}
    \cup {SourceFile(<<"v", "mp4">>, TRUE, t, s) :
              t \in {<<>>, AllGps}, s \in {None, Some(<<>>), Some(BadTimestamp)}}
    \cup {SourceFile(<<"notes", "txt">>, FALSE, <<>>, None)}

\* The listings glob("*") can give: files of different names, in any order.
Directories ==
    {d \in UNION {[1..n -> SourceFiles] : n \in 0..MaxFiles} :
        \A i, j \in 1..Len(d) : i # j => d[i].name # d[j].name}

ConfigValueOf ==
    [k \in {"strip_gps_data", "show_timestamps", "sort_key"} |->
        CASE k = "strip_gps_data" -> FALSE
          [] k = "show_timestamps" -> FALSE
          [] OTHER -> "filename"]

Configs ==
    {None} \cup {Some(c) : c \in Mappings({"strip_gps_data", "show_timestamps", "sort_key"},
                                          ConfigValueOf)}

\* The images and settings tried for the sizes: one readable image of every
\* size up to MaxPixels square, without orientation tag or with one of the
\* eight codes, under every pair of optional bounds up to MaxBox and every
\* thumbnail size up to MaxThumb square.
MaxPixels == 5

MaxBox == 3

MaxThumb == 3

OrientationTag(code) ==
    [k \in {"Exif.Image.Orientation"} |-> Str([digits |-> TRUE, n |-> code])]

SizedImage(w, h, tags) ==
    [SourceFile(<<"a", "JPG">>, TRUE, tags, None) EXCEPT !.w = w, !.h = h]

SizedImages ==
    {SizedImage(w, h, tags) :
        w \in 1..MaxPixels, h \in 1..MaxPixels,
        tags \in {<<>>} \cup {OrientationTag(code) : code \in 1..8}}

\* album-settings.yaml with the two thumbnail sides, and max_width and
\* max_height where they are given
SizeConfig(max_width, max_height, thumbnail_width, thumbnail_height) ==
    Some([k \in {"thumbnail_width", "thumbnail_height"}
                \cup (IF IsNone(max_width) THEN {} ELSE {"max_width"})
                \cup (IF IsNone(max_height) THEN {} ELSE {"max_height"}) |->
             CASE k = "thumbnail_width" -> thumbnail_width
               [] k = "thumbnail_height" -> thumbnail_height
               [] k = "max_width" -> max_width
               [] OTHER -> max_height])

SizeConfigs ==
    {SizeConfig(mw, mh, tw, th) :
        mw \in {None} \cup {Some(n) : n \in 1..MaxBox},
        mh \in {None} \cup {Some(n) : n \in 1..MaxBox},
        tw \in 1..MaxThumb, th \in 1..MaxThumb}

AlbumInitSizes ==
    /\ a_pc = "start"
    /\ a_run = 1
    /\ a_config \in SizeConfigs
    /\ \E f \in SizedImages : a_dir = <<f>>
    /\ a_settings = AlbumSettingsDefault
    /\ a_idx = 0
    /\ a_files = <<>>
    /\ a_out = <<>>
    /\ a_log = <<>>
    /\ a_page = None
    /\ a_exc = NoExc

\* The directories tried for the order of the album: up to MaxSorted files
\* of different names, two images and a video with its sidecar, each without
\* timestamp tag or with an Exif.Photo.DateTimeOriginal of an instant up to
\* MaxInstant, with or without an offset.
MaxSorted == 3

TimestampTag(instant, offset) ==
    [k \in {"Exif.Photo.DateTimeOriginal"} |->
        Str([date |-> "hyphen", instant |-> instant, offset |-> offset])]

TimestampTags ==
    {<<>>} \cup {TimestampTag(instant, offset) :
                     instant \in 1..MaxInstant, offset \in {"", "+01:00"}}

DatedFiles ==
    {SourceFile(name, TRUE, t, None) : name \in {<<"a", "JPG">>, <<"b c", "JPG">>},
                                       t \in TimestampTags}
    \cup {SourceFile(<<"v", "mp4">>, TRUE, <<>>, Some(t)) : t \in TimestampTags}

DatedDirectories ==
    {d \in UNION {[1..n -> DatedFiles] : n \in 0..MaxSorted} :
        \A i, j \in 1..Len(d) : i # j => d[i].name # d[j].name}

AlbumInitSort ==
    /\ a_pc = "start"
    /\ a_run = 1
    /\ a_config \in {None} \cup {Some(c) : c \in Mappings({"show_timestamps"}, ConfigValueOf)}
    /\ a_dir \in DatedDirectories
    /\ a_settings = AlbumSettingsDefault
    /\ a_idx = 0
    /\ a_files = <<>>
    /\ a_out = <<>>
    /\ a_log = <<>>
    /\ a_page = None
    /\ a_exc = NoExc

\* The directories tried for the URLs: up to MaxNamed readable files of
\* different names, untagged, the videos with a sidecar.  v.mp4.jpg is an
\* image by its extension.
MaxNamed == 3

MediaNames == {<<"a", "JPG">>, <<"b c", "JPG">>, <<"v", "mp4">>, <<"v", "mp4", "jpg">>}

NamedFiles ==
    {SourceFile(name, TRUE, <<>>, IF is_image_file(name) THEN None ELSE Some(<<>>)) :
        name \in MediaNames}

NamedDirectories ==
    {d \in UNION {[1..n -> NamedFiles] : n \in 0..MaxNamed} :
        \A i, j \in 1..Len(d) : i # j => d[i].name # d[j].name}

AlbumInitNames ==
    /\ a_pc = "start"
    /\ a_run = 1
    /\ a_config = None
    /\ a_dir \in NamedDirectories
    /\ a_settings = AlbumSettingsDefault
    /\ a_idx = 0
    /\ a_files = <<>>
    /\ a_out = <<>>
    /\ a_log = <<>>
    /\ a_page = None
    /\ a_exc = NoExc

AlbumIdle ==
    /\ a_pc = "idle"
    /\ a_run = 0
    /\ a_config = None
    /\ a_dir = <<>>
    /\ a_settings = AlbumSettingsDefault
    /\ a_idx = 0
    /\ a_files = <<>>
    /\ a_out = <<>>
    /\ a_log = <<>>
    /\ a_page = None
    /\ a_exc = NoExc

AlbumInit ==
    /\ a_pc = "start"
    /\ a_run = 1
    /\ a_config \in Configs
    /\ a_dir \in Directories
    /\ a_settings = AlbumSettingsDefault
    /\ a_idx = 0
    /\ a_files = <<>>
    /\ a_out = <<>>
    /\ a_log = <<>>
    /\ a_page = None
    /\ a_exc = NoExc

\* generate_album, steps 1 and 2: the settings are read and the output
\* directories made if they are not there
ReadAlbumSettings ==
    /\ a_pc = "start"
    /\ a_settings' = read_album_settings(a_config, <<"photos">>)
    /\ a_idx' = 1
    /\ a_files' = <<>>
    /\ a_log' = <<>>
    /\ a_pc' = "files"
    /\ UNCHANGED <<a_run, a_config, a_dir, a_out, a_page, a_exc>>

\* The end of an iteration of the loop of step 3: the file returned is
\* appended, or the exception leaves generate_album and main.
AfterFile(res) ==
    /\ a_out' = res.out
    /\ a_log' = res.log
    /\ IF res.exc # NoExc
       THEN a_pc' = "crashed" /\ a_exc' = res.exc /\ UNCHANGED <<a_idx, a_files>>
       ELSE /\ a_idx' = a_idx + 1
            /\ a_files' = IF IsNone(res.file) THEN a_files ELSE Append(a_files, Get(res.file))
            /\ UNCHANGED <<a_pc, a_exc>>
    /\ UNCHANGED <<a_run, a_config, a_dir, a_settings, a_page>>

\* step 3, a file that is neither an image nor a video: continue
SkipFile ==
    /\ a_pc = "files" /\ a_idx <= Len(a_dir)
    /\ ~is_image_file(a_dir[a_idx].name) /\ ~is_video_file(a_dir[a_idx].name)
    /\ a_idx' = a_idx + 1
    /\ UNCHANGED <<a_pc, a_run, a_config, a_dir, a_settings, a_files, a_out, a_log, a_page,
                   a_exc>>

\* step 3, an image file
ProcessImageFile ==
    /\ a_pc = "files" /\ a_idx <= Len(a_dir)
    /\ is_image_file(a_dir[a_idx].name)
    /\ AfterFile(process_image_file(a_settings, a_dir[a_idx], a_out, a_log))

\* step 3, a video file
ProcessVideoFile ==
    /\ a_pc = "files" /\ a_idx <= Len(a_dir)
    /\ ~is_image_file(a_dir[a_idx].name) /\ is_video_file(a_dir[a_idx].name)
    /\ AfterFile(process_video_file(a_settings, a_dir[a_idx], a_out, a_log))

\* steps 4 and 5: the files are sorted and index.html written
WriteAlbum ==
    /\ a_pc = "files" /\ a_idx > Len(a_dir)
    /\ a_files' = sort_files(a_files, a_settings.sort_key)
    /\ a_page' = Some(write_gallery_file(a_settings, a_files'))
    /\ a_pc' = "done"
    /\ UNCHANGED <<a_run, a_config, a_dir, a_settings, a_idx, a_out, a_log, a_exc>>

\* The program is run again on the same, unchanged directory.
RunAgain ==
    /\ a_pc = "done" /\ a_run < MaxRuns
    /\ a_run' = a_run + 1
    /\ a_pc' = "start"
    /\ UNCHANGED <<a_config, a_dir, a_settings, a_idx, a_files, a_out, a_log, a_page, a_exc>>

(***************************************************************************)
(* generate_gallery.py: main, Gallery and Album.                           *)
(***************************************************************************)
varsGallery ==
    <<g_pc, g_n, g_i, g_settings, g_config, g_subdirs, g_albums, g_generated, g_log, g_exc,
      g_album_settings>>

\* class PageSettings: the class attributes, which are the defaults
PageSettings ==
    [title |-> None, output_directory_name |-> None, is_public |-> FALSE,
     strip_gps_data |-> TRUE, max_image_width |-> None, max_image_height |-> None,
     thumbnail_width |-> 100, thumbnail_height |-> 100, default_time_offset |-> "+00:00",
     show_timestamps |-> TRUE, sort_key |-> "timestamp", foreground_color |-> "#eeeeee",
     background_color |-> "#333333", link_color |-> "#44aadd"]

\* The mutant of clone: a copy of every attribute.
clone_everything(self) == [attr \in DOMAIN self |-> self[attr]]

\* PageSettings.clone: a copy, except for the title and output directory name
clone(self) ==
    [attr \in DOMAIN self |->
        IF attr \in {"title", "output_directory_name"} THEN PageSettings[attr] ELSE self[attr]]

\* The mutant of set_attrs: no attribute is set.
set_attrs_none(self_settings, settings) == self_settings

\* for attr in dir(self.settings): if attr in settings: setattr(...)
set_attrs(self_settings, settings) ==
    [attr \in DOMAIN self_settings |->
        IF attr \in DOMAIN settings THEN settings[attr] ELSE self_settings[attr]]

\* A settings file: whether it exists and, if it does, the table tomli.load
\* gives (None: tomli.TOMLDecodeError).
SettingsFile(exists, table) == [exists |-> exists, table |-> table]

MissingFile == SettingsFile(FALSE, None)

MalformedFile == SettingsFile(TRUE, None)

\* hashlib.sha256(name.encode()).hexdigest()
sha256(name) == <<"sha256", name>>

\* Gallery.read_settings, on the PageSettings object that self.settings is.
\* The object is the value of the class attribute Gallery.settings, which no
\* Gallery instance replaces: the attributes are set on that one object.
gallery_read_settings(self_settings, settings_file) ==
    IF ~settings_file.exists \/ IsNone(settings_file.table)
    THEN [exc |-> "RuntimeError", settings |-> self_settings]
    ELSE [exc |-> NoExc,
          settings |->
              [set_attrs(self_settings, Get(settings_file.table)) EXCEPT
                  !.output_directory_name = IF IsNone(@) THEN Some("gallery") ELSE @]]

\* The mutant of album_read_settings: an album.toml that tomli cannot decode
\* is read as an empty table.
album_read_settings_lenient(default_settings, settings_file, name) ==
    IF ~settings_file.exists
    THEN [exc |-> "RuntimeError", settings |-> clone(default_settings),
          default_settings |-> default_settings]
    ELSE [exc |-> NoExc,
          settings |->
              [set_attrs(clone(default_settings),
                         IF IsNone(settings_file.table) THEN <<>> ELSE Get(settings_file.table))
               EXCEPT !.output_directory_name = IF IsNone(@) THEN Some(sha256(name)) ELSE @],
          default_settings |-> default_settings]

\* Album.read_settings: settings is self.settings when the method returns or
\* raises, and default_settings the object that was passed, which the method
\* reads in clone and never assigns to.
album_read_settings(default_settings, settings_file, name) ==
    IF ~settings_file.exists \/ IsNone(settings_file.table)
    THEN [exc |-> "RuntimeError", settings |-> clone(default_settings),
          default_settings |-> default_settings]
    ELSE [exc |-> NoExc,
          settings |->
              [set_attrs(clone(default_settings), Get(settings_file.table)) EXCEPT
                  !.output_directory_name = IF IsNone(@) THEN Some(sha256(name)) ELSE @],
          default_settings |-> default_settings]

(***************************************************************************)
(* The directories and settings files tried.                               *)
(***************************************************************************)
MaxDirs == 2

MaxAlbums == 3

GalleryValueOf ==
    [k \in {"title", "output_directory_name", "is_public"} |->
        CASE k = "title" -> Some("A")
          [] k = "output_directory_name" -> Some("x")
          [] OTHER -> TRUE]

GallerySettingsFiles ==
    {MissingFile, MalformedFile}
    \cup {SettingsFile(TRUE, Some(t)) :
              t \in Mappings({"title", "output_directory_name", "is_public"}, GalleryValueOf)}

\* The values of an album.toml, each different from the gallery's.
AlbumValueOf ==
    [k \in {"title", "output_directory_name", "is_public"} |->
        CASE k = "title" -> Some("B")
          [] k = "output_directory_name" -> Some("y")
          [] OTHER -> FALSE]

\* No album.toml, a malformed one, an empty one, one that makes the album
\* public, and one that names the album and its directory and makes it
\* private.
AlbumSettingsFiles ==
    {MissingFile, MalformedFile}
    \cup {SettingsFile(TRUE, Some(t)) : t \in Mappings({"is_public"}, GalleryValueOf)}
    \cup {SettingsFile(TRUE, Some(AlbumValueOf))}

AlbumName(j) == <<"album", j>>

\* album_path of the glob of create_gallery in the i-th directory of main
AlbumPath(i, j) == <<<<"dir", i>>, AlbumName(j)>>

\* The mutant of PathName: the whole path.
PathName_with_parent(path) == path

\* Path.name: the last component
PathName(path) == path[Len(path)]

GalleryIdle ==
    /\ g_pc = "idle"
    /\ g_n = 0
    /\ g_i = 0
    /\ g_settings = PageSettings
    /\ g_config = MissingFile
    /\ g_subdirs = <<>>
    /\ g_albums = <<>>
    /\ g_generated = {}
    /\ g_log = <<>>
    /\ g_exc = NoExc
    /\ g_album_settings = <<>>

\* main before its loop: dir_names holds g_n names (the working directory
\* if none was given), and Gallery.settings is the PageSettings() made when
\* the class was.
GalleryInit ==
    /\ g_pc = "main"
    /\ g_n \in 1..MaxDirs
    /\ g_i = 0
    /\ g_settings = PageSettings
    /\ g_config = MissingFile
    /\ g_subdirs = <<>>
    /\ g_albums = <<>>
    /\ g_generated = {}
    /\ g_log = <<>>
    /\ g_exc = NoExc
    /\ g_album_settings = <<>>

\* An iteration of main's loop up to the loop of create_gallery:
\* Gallery(Path(dir_name)), read_settings and os.makedirs(self.output_path).
\* A RuntimeError is caught in main and logged; the OSError of os.makedirs
\* on a directory that cannot be written to is not.  g_subdirs, g_albums,
\* g_generated and g_log are those of the directory main is at.
GalleryGenerate ==
    /\ g_pc = "main" /\ g_i < g_n
    /\ \E settings_file \in GallerySettingsFiles, writable \in BOOLEAN :
          LET read == gallery_read_settings(g_settings, settings_file)
          IN  /\ g_config' = settings_file
              /\ g_settings' = read.settings
              /\ IF read.exc # NoExc
                 THEN /\ g_log' = <<[level |-> "ERROR", album |-> 0]>>
                      /\ UNCHANGED <<g_pc, g_exc>>
                 ELSE IF ~writable
                 THEN g_pc' = "crashed" /\ g_exc' = "OSError" /\ g_log' = <<>>
                 ELSE g_pc' = "albums" /\ g_log' = <<>> /\ UNCHANGED g_exc
    /\ g_i' = g_i + 1
    /\ g_subdirs' = <<>>
    /\ g_albums' = <<>>
    /\ g_generated' = {}
    /\ g_album_settings' = <<>>
    /\ UNCHANGED g_n

\* An iteration of the loop of create_gallery, on the next path of the
\* glob: without album.toml it is passed over; otherwise Album.generate
\* runs, a RuntimeError is caught and logged, and the album is appended if
\* it is public.  g_album_settings holds, for each path gone through, the
\* settings of the Album object made for it, if one was.
CreateGalleryAlbum ==
    /\ g_pc = "albums" /\ Len(g_subdirs) < MaxAlbums
    /\ \E settings_file \in AlbumSettingsFiles :
          LET j == Len(g_subdirs) + 1
              read == album_read_settings(g_settings, settings_file, PathName(AlbumPath(g_i, j)))
          IN  /\ g_subdirs' = Append(g_subdirs, settings_file)
              /\ g_album_settings' =
                     Append(g_album_settings,
                            IF settings_file.exists THEN Some(read.settings) ELSE None)
              /\ g_settings' = IF settings_file.exists THEN read.default_settings ELSE g_settings
              /\ IF ~settings_file.exists
                 THEN UNCHANGED <<g_albums, g_generated, g_log>>
                 ELSE IF read.exc # NoExc
                 THEN /\ g_log' = Append(g_log, [level |-> "ERROR", album |-> j])
                      /\ UNCHANGED <<g_albums, g_generated>>
                 ELSE /\ g_generated' = g_generated \cup {j}
                      /\ g_albums' = IF read.settings.is_public
                                     THEN Append(g_albums, [path |-> j, settings |-> read.settings])
                                     ELSE g_albums
                      /\ UNCHANGED g_log
    /\ UNCHANGED <<g_pc, g_n, g_i, g_config, g_exc>>

\* The glob is exhausted: create_gallery and generate return to main.
CreateGalleryDone ==
    /\ g_pc = "albums"
    /\ g_pc' = "main"
    /\ UNCHANGED <<g_n, g_i, g_settings, g_config, g_subdirs, g_albums, g_generated, g_log,
                   g_exc, g_album_settings>>

\* main's loop is over.
MainReturn ==
    /\ g_pc = "main" /\ g_i = g_n
    /\ g_pc' = "exited"
    /\ UNCHANGED <<g_n, g_i, g_settings, g_config, g_subdirs, g_albums, g_generated, g_log,
                   g_exc, g_album_settings>>

(***************************************************************************)
(* The earlier generator, generate-album.py: the thumbnail of one image.   *)
(* The EXIF data is the text that exiftool prints, so the orientation is   *)
(* the printed name of the tag's value, or None without the tag.           *)
(***************************************************************************)
varsEarlier ==
    <<e_pc, e_width, e_height, e_orientation, e_thumbnail_width, e_thumbnail_height,
      e_thumbnail, e_position, e_exc>>

\* exif_data.get("Orientation", None)
OrientationNames ==
    {"Horizontal (normal)", "Mirror horizontal", "Rotate 180", "Mirror vertical",
     "Mirror horizontal and rotate 270 CW", "Rotate 90 CW",
     "Mirror horizontal and rotate 90 CW", "Rotate 270 CW"}

\* is_sideways_orientation of generate-album.py
is_sideways_orientation_name(orientation) ==
    orientation \in {Some("Mirror horizontal and rotate 270 CW"), Some("Rotate 90 CW"),
                     Some("Mirror horizontal and rotate 90 CW"), Some("Rotate 270 CW")}

\* thumbnail_width and thumbnail_height, floored: height1 is the float
\* thumbnail_width / ar
thumbnail_fit(thumbnail_width, height1, thumbnail_height, ar) ==
    IF GreaterThan(height1, thumbnail_height)
    THEN <<floor(multiply(thumbnail_height, ar)), thumbnail_height>>
    ELSE <<thumbnail_width, floor(height1)>>

\* thumbnail_width, thumbnail_height = thumbnail_height, thumbnail_width
swapped(size) == <<size[2], size[1]>>

\* The size the oriented image is resized to, where ar = image.width /
\* image.height is that of the image as stored.
earlier_thumbnail_size(width, height, orientation, thumbnail_width, thumbnail_height) ==
    IF is_sideways_orientation_name(orientation)
    THEN swapped(thumbnail_fit(thumbnail_width,
                               divide(thumbnail_width, aspect_ratio(width, height)),
                               thumbnail_height, aspect_ratio(width, height)))
    ELSE thumbnail_fit(thumbnail_width,
                       divide(thumbnail_width, aspect_ratio(width, height)),
                       thumbnail_height, aspect_ratio(width, height))

\* thumbnail_position
thumbnail_position(thumbnail_width, thumbnail_height, size) ==
    <<FloorHalf(thumbnail_width - size[1]), FloorHalf(thumbnail_height - size[2])>>

\* The source sides and the sides of the thumbnail canvas tried.
MaxSource == 4

MaxCanvas == 4

EarlierIdle ==
    /\ e_pc = "idle"
    /\ e_width = 0
    /\ e_height = 0
    /\ e_orientation = None
    /\ e_thumbnail_width = 0
    /\ e_thumbnail_height = 0
    /\ e_thumbnail = <<0, 0>>
    /\ e_position = <<0, 0>>
    /\ e_exc = NoExc

EarlierInit ==
    /\ e_pc = "saved"
    /\ e_width \in 1..MaxSource
    /\ e_height \in 1..MaxSource
    /\ e_orientation \in {None} \cup {Some(name) : name \in OrientationNames}
    /\ e_thumbnail_width \in 1..MaxCanvas
    /\ e_thumbnail_height \in 1..MaxCanvas
    /\ e_thumbnail = <<0, 0>>
    /\ e_position = <<0, 0>>
    /\ e_exc = NoExc

\* "# create thumbnail": the image is oriented, resized and pasted on a
\* canvas of thumbnail_width x thumbnail_height; a resize to a size with a
\* side below 1 raises and ends the run.
CreateThumbnail ==
    /\ e_pc = "saved"
    /\ LET size == earlier_thumbnail_size(e_width, e_height, e_orientation,
                                          e_thumbnail_width, e_thumbnail_height)
       IN  IF resize_raises(size)
           THEN /\ e_exc' = "ValueError"
                /\ e_pc' = "raised"
                /\ UNCHANGED <<e_thumbnail, e_position>>
           ELSE /\ e_thumbnail' = size
                /\ e_position' = thumbnail_position(e_thumbnail_width,
                                                    e_thumbnail_height, size)
                /\ e_pc' = "pasted"
                /\ e_exc' = NoExc
    /\ UNCHANGED <<e_width, e_height, e_orientation, e_thumbnail_width, e_thumbnail_height>>

vars == <<varsOrient, varsMeta, varsAlbum, varsGallery, varsFit, varsEarlier>>

InitOrient == OrientInit /\ MetaIdle /\ AlbumIdle /\ GalleryIdle /\ FitIdle /\ EarlierIdle

NextOrient ==
    \/ OrientImage /\ UNCHANGED <<varsMeta, varsAlbum, varsGallery, varsFit, varsEarlier>>
    \/ OrientImageAgain /\ UNCHANGED <<varsMeta, varsAlbum, varsGallery, varsFit, varsEarlier>>

SpecOrient == InitOrient /\ [][NextOrient]_vars

InitMeta == MetaInit /\ OrientIdle /\ AlbumIdle /\ GalleryIdle /\ FitIdle /\ EarlierIdle

NextMeta ==
    \/ GetImageMetadata /\ UNCHANGED <<varsOrient, varsAlbum, varsGallery, varsFit, varsEarlier>>
    \/ GetVideoMetadata /\ UNCHANGED <<varsOrient, varsAlbum, varsGallery, varsFit, varsEarlier>>

SpecMeta == InitMeta /\ [][NextMeta]_vars

InitTags == MetaInitTags /\ OrientIdle /\ AlbumIdle /\ GalleryIdle /\ FitIdle /\ EarlierIdle

SpecTags == InitTags /\ [][NextMeta]_vars

Init == AlbumInit /\ OrientIdle /\ MetaIdle /\ GalleryIdle /\ FitIdle /\ EarlierIdle

Next ==
    \/ ReadAlbumSettings /\ UNCHANGED <<varsOrient, varsMeta, varsGallery, varsFit, varsEarlier>>
    \/ SkipFile /\ UNCHANGED <<varsOrient, varsMeta, varsGallery, varsFit, varsEarlier>>
    \/ ProcessImageFile /\ UNCHANGED <<varsOrient, varsMeta, varsGallery, varsFit, varsEarlier>>
    \/ ProcessVideoFile /\ UNCHANGED <<varsOrient, varsMeta, varsGallery, varsFit, varsEarlier>>
    \/ WriteAlbum /\ UNCHANGED <<varsOrient, varsMeta, varsGallery, varsFit, varsEarlier>>
    \/ RunAgain /\ UNCHANGED <<varsOrient, varsMeta, varsGallery, varsFit, varsEarlier>>

Spec == Init /\ [][Next]_vars

InitSizes == AlbumInitSizes /\ OrientIdle /\ MetaIdle /\ GalleryIdle /\ FitIdle /\ EarlierIdle

NextSizes ==
    \/ ReadAlbumSettings /\ UNCHANGED <<varsOrient, varsMeta, varsGallery, varsFit, varsEarlier>>
    \/ ProcessImageFile /\ UNCHANGED <<varsOrient, varsMeta, varsGallery, varsFit, varsEarlier>>
    \/ WriteAlbum /\ UNCHANGED <<varsOrient, varsMeta, varsGallery, varsFit, varsEarlier>>

SpecSizes == InitSizes /\ [][NextSizes]_vars

InitSort == AlbumInitSort /\ OrientIdle /\ MetaIdle /\ GalleryIdle /\ FitIdle /\ EarlierIdle

NextSort ==
    \/ ReadAlbumSettings /\ UNCHANGED <<varsOrient, varsMeta, varsGallery, varsFit, varsEarlier>>
    \/ ProcessImageFile /\ UNCHANGED <<varsOrient, varsMeta, varsGallery, varsFit, varsEarlier>>
    \/ ProcessVideoFile /\ UNCHANGED <<varsOrient, varsMeta, varsGallery, varsFit, varsEarlier>>
    \/ WriteAlbum /\ UNCHANGED <<varsOrient, varsMeta, varsGallery, varsFit, varsEarlier>>

SpecSort == InitSort /\ [][NextSort]_vars

InitNames == AlbumInitNames /\ OrientIdle /\ MetaIdle /\ GalleryIdle /\ FitIdle /\ EarlierIdle

SpecNames == InitNames /\ [][NextSort]_vars

InitGallery == GalleryInit /\ OrientIdle /\ MetaIdle /\ AlbumIdle /\ FitIdle /\ EarlierIdle

NextGallery ==
    \/ GalleryGenerate /\ UNCHANGED <<varsOrient, varsMeta, varsAlbum, varsFit, varsEarlier>>
    \/ CreateGalleryAlbum /\ UNCHANGED <<varsOrient, varsMeta, varsAlbum, varsFit, varsEarlier>>
    \/ CreateGalleryDone /\ UNCHANGED <<varsOrient, varsMeta, varsAlbum, varsFit, varsEarlier>>
    \/ MainReturn /\ UNCHANGED <<varsOrient, varsMeta, varsAlbum, varsFit, varsEarlier>>

SpecGallery == InitGallery /\ [][NextGallery]_vars

InitFit == FitInit /\ OrientIdle /\ MetaIdle /\ AlbumIdle /\ GalleryIdle /\ EarlierIdle

NextFit ==
    FitToDimensions /\ UNCHANGED <<varsOrient, varsMeta, varsAlbum, varsGallery, varsEarlier>>

SpecFit == InitFit /\ [][NextFit]_vars

\* The thumbnail of the earlier generator, for every source size, orientation
\* and canvas up to the bounds.
InitEarlier ==
    EarlierInit /\ OrientIdle /\ MetaIdle /\ AlbumIdle /\ GalleryIdle /\ FitIdle

NextEarlier ==
    CreateThumbnail /\ UNCHANGED <<varsOrient, varsMeta, varsAlbum, varsGallery, varsFit>>

SpecEarlier == InitEarlier /\ [][NextEarlier]_vars

(***************************************************************************)
(* The EXIF Orientation tag, as the EXIF standard defines it: the visual   *)
(* side that the stored row 0 lies on and the visual side that the stored  *)
(* column 0 lies on.                                                       *)
(***************************************************************************)
ExifRow0 == <<"top", "top", "bottom", "bottom", "left", "right", "right", "left">>

ExifCol0 == <<"left", "right", "right", "left", "top", "top", "bottom", "bottom">>

\* The image as it must be displayed: display pixel (R, C) is the stored
\* pixel whose row and column the two sides select.
ExifDisplayed(im, code) ==
    IF ExifRow0[code] \in {"top", "bottom"}
    THEN MkImage(im.w, im.h,
             [R \in 1..im.h |-> [C \in 1..im.w |->
                 im.px[IF ExifRow0[code] = "top" THEN R ELSE im.h + 1 - R]
                      [IF ExifCol0[code] = "left" THEN C ELSE im.w + 1 - C]]])
    ELSE MkImage(im.h, im.w,
             [R \in 1..im.w |-> [C \in 1..im.h |->
                 im.px[IF ExifRow0[code] = "left" THEN C ELSE im.h + 1 - C]
                      [IF ExifCol0[code] = "top" THEN R ELSE im.w + 1 - R]]])

\* C10: orient_image yields, for each EXIF code 1..8, the image as the EXIF
\* Orientation tag says it is displayed (1 unchanged, 2 mirrored horizontally,
\* 3 rotated 180, 4 mirrored vertically, 5 transposed, 6 rotated 90 clockwise,
\* 7 transversed, 8 rotated 270 clockwise), of size H x W for the codes 5..8
\* and W x H otherwise, and leaves the image unchanged for an absent code and
\* for an integer that is no EXIF code.
C10_OrientMatchesExif ==
    o_pc = "oriented" =>
        /\ InCodes(o_orientation, 1..8) =>
               o_result = ExifDisplayed(o_image, Get(o_orientation))
        /\ ~InCodes(o_orientation, 1..8) => o_result = o_image
        /\ InCodes(o_orientation, 5..8) =>
               o_result.w = o_image.h /\ o_result.h = o_image.w
        /\ ~InCodes(o_orientation, 5..8) =>
               o_result.w = o_image.w /\ o_result.h = o_image.h

\* A 3 x 2 image with code 5 has been turned into the 2 x 3 transpose.
C10_Witness ==
    /\ o_pc = "oriented"
    /\ o_orientation = Some(5)
    /\ o_image.w = 3 /\ o_image.h = 2
    /\ o_result.w = 2 /\ o_result.h = 3
    /\ \A r \in 1..3, c \in 1..2 : o_result.px[r][c] = o_image.px[c][r]

\* The code that undoes a code: 6 and 8 undo each other, every other code
\* undoes itself.
InverseCode(c) == IF c = 6 THEN 8 ELSE IF c = 8 THEN 6 ELSE c

\* The inverses as the specification pairs them: 5 with 7 and 6 with 8.
InverseCodeAsStated(c) ==
    CASE c = 5 -> 7
      [] c = 7 -> 5
      [] c = 6 -> 8
      [] c = 8 -> 6
      [] OTHER -> c

\* C11, as the code has it: for every code c in 1..8, orient_image with c and
\* then with c's inverse gives back the original pixel layout, where 1, 2, 3,
\* 4, 5 and 7 are their own inverses and 6 and 8 are each other's.
C11_OrientInverse ==
    (/\ o_pc = "reoriented"
     /\ InCodes(o_orientation, 1..8)
     /\ o_second = Some(InverseCode(Get(o_orientation)))) => o_back = o_image

\* A 3 x 2 image turned with code 6 and then with code 8 is itself again.
C11_Witness ==
    /\ o_pc = "reoriented"
    /\ o_orientation = Some(6) /\ o_second = Some(8)
    /\ o_image.w = 3 /\ o_image.h = 2
    /\ o_result.w = 2 /\ o_result.h = 3
    /\ o_back = o_image

\* C11 as stated: 1, 2, 3 and 4 are their own inverses, 5 and 7 are each
\* other's and so are 6 and 8.
C11_OrientInverseAsStated ==
    (/\ o_pc = "reoriented"
     /\ InCodes(o_orientation, 1..8)
     /\ o_second = Some(InverseCodeAsStated(Get(o_orientation)))) => o_back = o_image

(***************************************************************************)
(* The location a tag mapping must resolve to, written out key by key.     *)
(***************************************************************************)
HasTag(md, k) == k \in DOMAIN md

ExpectedCaption(md) ==
    IF HasTag(md, "Exif.Image.ImageDescription") THEN "exif description"
    ELSE IF HasTag(md, "Iptc.Application2.Caption") THEN "iptc caption"
    ELSE IF HasTag(md, "Xmp.acdsee.notes") THEN "acdsee notes"
    ELSE IF HasTag(md, "Xmp.dc.description") THEN "dc description"
    ELSE IF HasTag(md, "Xmp.exif.UserComment") THEN "user comment"
    ELSE IF HasTag(md, "Xmp.tiff.ImageDescription") THEN "tiff description"
    ELSE ""

ExpectedLocation(strip, md) ==
    IF strip THEN None
    ELSE IF ExpectedCaption(md) # "" THEN Some([caption |-> ExpectedCaption(md), gps |-> <<>>])
    ELSE IF /\ HasTag(md, "Exif.GPSInfo.GPSLatitude")
            /\ HasTag(md, "Exif.GPSInfo.GPSLatitudeRef")
            /\ HasTag(md, "Exif.GPSInfo.GPSLongitude")
            /\ HasTag(md, "Exif.GPSInfo.GPSLongitudeRef")
    THEN Some([caption |-> "",
               gps |-> <<[deg |-> 40, min |-> 30, sec100 |-> 0], "N",
                         [deg |-> 73, min |-> 59, sec100 |-> 3050], "W">>])
    ELSE None

\* C9: in every metadata record that get_image_metadata or get_video_metadata
\* returns, the location is absent when strip_gps_data is true; when it is
\* false the location is the value of the first present caption/description
\* tag in the fixed order, otherwise the DMS string of the coordinates and
\* their references if and only if all four GPS tags are present, otherwise
\* absent.
C9_LocationResolution ==
    (m_pc \in {"image", "video"} /\ m_result.exc = NoExc) =>
        m_result.location = ExpectedLocation(m_settings.strip_gps_data, m_metadata)

\* An image with the four GPS tags and no caption tag got the DMS string.
C9_Witness ==
    /\ m_pc = "image"
    /\ m_result.exc = NoExc
    /\ ~m_settings.strip_gps_data
    /\ DOMAIN m_metadata = GpsKeys
    /\ ~IsNone(m_result.location)
    /\ Get(m_result.location).gps[1] = [deg |-> 40, min |-> 30, sec100 |-> 0]

(***************************************************************************)
(* The runs of generate_album over a directory.                            *)
(***************************************************************************)
IsMedia(f) == is_image_file(f.name) \/ is_video_file(f.name)

IsVideo(f) == ~is_image_file(f.name) /\ is_video_file(f.name)

\* The files of the listing that the loop of step 3 has gone through.
Processed == {i \in 1..Len(a_dir) : a_pc \in {"files", "done"} /\ i < a_idx}

InAlbum(name) == \E j \in 1..Len(a_files) : a_files[j].filename = name

\* C1: no file that is already in the output directory (resized original,
\* copied video or thumbnail) is written again by a step of the program, so
\* that a second generation over the unchanged directory rewrites nothing.
C1_NoArtifactRewritten ==
    [][\A p \in DOMAIN a_out : p \in DOMAIN a_out' /\ a_out'[p].writes = a_out[p].writes]_vars

\* C5: when the album is done over a listing with n media files of which k
\* are images that cannot be decoded, the page has exactly n - k thumbnails
\* and n - k detail entries, and nothing was written for a skipped image.
C5_UnreadableImagesSkipped ==
    a_pc = "done" =>
        LET n == Cardinality({i \in 1..Len(a_dir) : IsMedia(a_dir[i])})
            k == Cardinality({i \in 1..Len(a_dir) :
                                 is_image_file(a_dir[i].name) /\ ~a_dir[i].readable})
        IN  /\ Len(Get(a_page).thumbnails) = n - k
            /\ Len(Get(a_page).details) = n - k
            /\ \A i \in 1..Len(a_dir) :
                   (is_image_file(a_dir[i].name) /\ ~a_dir[i].readable) =>
                       /\ GalleryPath(a_dir[i].name) \notin DOMAIN a_out
                       /\ ThumbnailPath(a_dir[i].name) \notin DOMAIN a_out

\* The tags that the metadata of a file is read from: the image's own, the
\* sidecar's for a video.
TagsRead(f) == IF is_image_file(f.name) THEN f.tags
               ELSE IF IsNone(f.sidecar) THEN <<>> ELSE Get(f.sidecar)

HasUnparsableTimestamp(f) ==
    \E key \in DOMAIN TagsRead(f) \cap Range(TimestampKeys) :
        TagsRead(f)[key].str.date = "invalid"

\* C6: a file whose timestamp tag cannot be parsed does not end the run, and
\* once the loop is past it the file is in the album.
C6_BadTimestampNotFatal ==
    \A i \in 1..Len(a_dir) :
        (IsMedia(a_dir[i]) /\ a_dir[i].readable /\ HasUnparsableTimestamp(a_dir[i])) =>
            /\ ~(a_pc = "crashed" /\ a_idx = i)
            /\ i \in Processed => InAlbum(a_dir[i].name)

\* C7: a video without a sidecar file that the loop is past has been copied
\* to the output directory and is in the album, with no title and no
\* location.
C7_VideoWithoutSidecar ==
    \A i \in Processed :
        (IsVideo(a_dir[i]) /\ IsNone(a_dir[i].sidecar)) =>
            /\ GalleryPath(a_dir[i].name) \in DOMAIN a_out
            /\ \E j \in 1..Len(a_files) :
                   /\ a_files[j].filename = a_dir[i].name
                   /\ IsNone(a_files[j].metadata.title)
                   /\ IsNone(a_files[j].metadata.location)

\* C8: with strip_gps_data true, no file of the album output directory
\* carries GPS tags.
C8_NoGpsInOutput ==
    (a_pc \in {"files", "done"} /\ a_settings.strip_gps_data) =>
        \A p \in DOMAIN a_out : ~a_out[p].gps

(***************************************************************************)
(* The runs of generate_gallery's main over its directory arguments.       *)
(***************************************************************************)
\* C2: the settings that a gallery has after read_settings are those that
\* its own gallery.toml gives over the defaults of PageSettings, whatever
\* the directories before it held.
C2_GallerySettingsIndependent ==
    g_pc = "albums" => g_settings = gallery_read_settings(PageSettings, g_config).settings

Logged(j) == \E e \in 1..Len(g_log) : g_log[e].level = "ERROR" /\ g_log[e].album = j

\* C3: when main has ended, every directory argument has been attempted,
\* and a failure that ended the processing of a directory was logged.
C3_FailureIsolated ==
    /\ g_pc \in {"exited", "crashed"} => g_i = g_n
    /\ g_exc # NoExc => Logged(0)

IsMissing(settings_file) == ~settings_file.exists

IsMalformed(settings_file) == settings_file.exists /\ IsNone(settings_file.table)

IsAlbumOfGallery(j) == \E a \in 1..Len(g_albums) : g_albums[a].path = j

\* The gallery-level half of C4: a gallery whose gallery.toml is missing or
\* malformed is given up with a logged error before any subdirectory is
\* looked at.
GalleryConfigFatal ==
    (g_i > 0 /\ (IsMissing(g_config) \/ IsMalformed(g_config))) =>
        /\ g_pc \in {"main", "exited"}
        /\ Logged(0)
        /\ g_subdirs = <<>> /\ g_generated = {} /\ g_albums = <<>>

ScaledByWidth(width, height, max_width) ==
    IF ~IsNone(max_width) /\ width > Get(max_width)
    THEN <<<<Get(max_width), 1>>, <<height * Get(max_width), width>>>>
    ELSE <<<<width, 1>>, <<height, 1>>>>

\* size is <<width, height>> of fractions; scaling by max_height / height
\* makes the height max_height and the width width * max_height / height
ScaledByHeight(size, max_height) ==
    IF ~IsNone(max_height) /\ size[2][1] > Get(max_height) * size[2][2]
    THEN <<<<size[1][1] * Get(max_height) * size[2][2], size[1][2] * size[2][1]>>,
           <<Get(max_height), 1>>>>
    ELSE size

Floored(size) == <<size[1][1] \div size[1][2], size[2][1] \div size[2][2]>>

TwoPassFit(width, height, max_width, max_height) ==
    Floored(ScaledByHeight(ScaledByWidth(width, height, max_width), max_height))

\* C12: fit_to_dimensions returns the floored result of the two-pass scaling
\* for every positive width and height and every pair of optional bounds.
C12_FitEqualsTwoPass ==
    f_pc = "fitted" => f_result = TwoPassFit(f_width, f_height, f_max_width, f_max_height)

(***************************************************************************)
(* The files that process_image_file writes for an image.                  *)
(***************************************************************************)
\* The EXIF code in the tags of a source image, 0 if it has none.
CodeOf(f) ==
    IF "Exif.Image.Orientation" \in DOMAIN f.tags
    THEN f.tags["Exif.Image.Orientation"].str.n ELSE 0

\* The box that an image stored with this code must fit in, as
\* <<bound on the stored width, bound on the stored height>>.
StoredBox(settings, code) ==
    IF code \in {5, 6, 7, 8} THEN <<settings.max_height, settings.max_width>>
    ELSE <<settings.max_width, settings.max_height>>

\* The size an image stored as w x h with this code is displayed in.
DisplayedSize(w, h, code) == IF code \in {5, 6, 7, 8} THEN <<h, w>> ELSE <<w, h>>

Within(n, bound) == IsNone(bound) \/ n <= Get(bound)

\* C13: the image saved to gallery/ has the size that fit_to_dimensions
\* gives under the bounds (max_height, max_width) exactly for the codes
\* 5..8 and (max_width, max_height) otherwise, and displayed by its code it
\* is no wider than max_width and no higher than max_height where these are
\* set.
C13_SidewaysBoundsSwapped ==
    \A i \in 1..Len(a_dir) :
        GalleryPath(a_dir[i].name) \in DOMAIN a_out =>
            LET f == a_dir[i]
                saved == a_out[GalleryPath(f.name)]
                box == StoredBox(a_settings, CodeOf(f))
                shown == DisplayedSize(saved.w, saved.h, CodeOf(f))
            IN  /\ <<saved.w, saved.h>> =
                       resized(f.w, f.h, fit_to_dimensions(f.w, f.h, box[1], box[2]))
                /\ Within(shown[1], a_settings.max_width)
                /\ Within(shown[2], a_settings.max_height)

\* A 5 x 2 image with code 6 under max_width 2 and max_height 3 is saved as
\* 3 x 1, which is displayed as 1 x 3.
C13_Witness ==
    /\ a_pc = "done"
    /\ a_dir[1].w = 5 /\ a_dir[1].h = 2 /\ CodeOf(a_dir[1]) = 6
    /\ a_settings.max_width = Some(2) /\ a_settings.max_height = Some(3)
    /\ GalleryPath(a_dir[1].name) \in DOMAIN a_out
    /\ a_out[GalleryPath(a_dir[1].name)].w = 3
    /\ a_out[GalleryPath(a_dir[1].name)].h = 1

\* C14: a thumbnail that process_image_file has written is a canvas of
\* exactly thumbnail_width x thumbnail_height; the image is pasted at
\* floor((canvas side - image side) / 2) on each axis, which is not
\* negative, and lies inside the canvas.
C14_ThumbnailCentred ==
    \A i \in 1..Len(a_dir) :
        ThumbnailPath(a_dir[i].name) \in DOMAIN a_out =>
            LET thumbnail == a_out[ThumbnailPath(a_dir[i].name)]
                x == thumbnail.paste[1]
                y == thumbnail.paste[2]
                w == thumbnail.paste[3]
                h == thumbnail.paste[4]
            IN  /\ thumbnail.w = a_settings.thumbnail_width
                /\ thumbnail.h = a_settings.thumbnail_height
                /\ 2 * x <= thumbnail.w - w /\ thumbnail.w - w < 2 * x + 2
                /\ 2 * y <= thumbnail.h - h /\ thumbnail.h - h < 2 * y + 2
                /\ x >= 0 /\ y >= 0
                /\ x + w <= thumbnail.w /\ y + h <= thumbnail.h

\* A 5 x 2 image with code 6 is turned to 2 x 5, fitted to 1 x 3 for a
\* 3 x 3 thumbnail and pasted at (1, 0).
C14_Witness ==
    /\ a_pc = "done"
    /\ a_dir[1].w = 5 /\ a_dir[1].h = 2 /\ CodeOf(a_dir[1]) = 6
    /\ IsNone(a_settings.max_width) /\ IsNone(a_settings.max_height)
    /\ a_settings.thumbnail_width = 3 /\ a_settings.thumbnail_height = 3
    /\ ThumbnailPath(a_dir[1].name) \in DOMAIN a_out
    /\ a_out[ThumbnailPath(a_dir[1].name)].paste = <<1, 0, 1, 3>>

(***************************************************************************)
(* The metadata record of a file with title, timestamp and orientation     *)
(* tags (SpecTags).                                                        *)
(***************************************************************************)
MetadataReturned == m_pc \in {"image", "video"} /\ m_result.exc = NoExc

\* The text a tag holds: the first text of a language alternative.
TextOf(v) == IF v.isdict THEN v.items[1] ELSE v.str

\* The text of the first key of keys that md has, or None.
FirstPresentText(md, keys) ==
    IF \A i \in 1..Len(keys) : ~HasTag(md, keys[i]) THEN None
    ELSE Some(TextOf(md[keys[CHOOSE i \in 1..Len(keys) :
                              /\ HasTag(md, keys[i])
                              /\ \A j \in 1..(i - 1) : ~HasTag(md, keys[j])]]))

TitlePriority == <<"Xmp.dc.title", "Xmp.acdsee.caption", "Iptc.Application2.ObjectName">>

\* C15: the title of an image and of a video is the value of the first key
\* that is present, in the order Xmp.dc.title, Xmp.acdsee.caption,
\* Iptc.Application2.ObjectName, and is absent only when none of them is.
C15_TitlePriority ==
    MetadataReturned => m_result.title = FirstPresentText(m_metadata, TitlePriority)

RECURSIVE LStrip(_)
LStrip(text) == IF text # <<>> /\ Head(text) = " " THEN LStrip(Tail(text)) ELSE text

RECURSIVE RStrip(_)
RStrip(text) ==
    IF text # <<>> /\ text[Len(text)] = " " THEN RStrip(SubSeq(text, 1, Len(text) - 1)) ELSE text

Trimmed(text) == RStrip(LStrip(text))

\* C16: the title of the record has no surrounding whitespace and is never
\* empty: a title tag that is empty once trimmed gives no title.
C16_TitleTrimmed ==
    (MetadataReturned /\ ~IsNone(m_result.title)) =>
        /\ Get(m_result.title) = Trimmed(Get(m_result.title))
        /\ Get(m_result.title) # <<>>

\* The timestamp that a tag's text names: its date and time at its own
\* offset, or at the default offset if it ends with none.
TimestampNamed(text, default_time_offset) ==
    [instant |-> text.instant,
     offset |-> IF text.offset = "" THEN default_time_offset ELSE text.offset]

EarlierFileTime == IF m_ctime <= m_mtime THEN m_ctime ELSE m_mtime

TimestampPriority ==
    <<"Exif.Photo.DateTimeOriginal", "Exif.Image.DateTime", "Exif.Photo.DateTimeDigitized">>

C18_OrientationInRange ==
    m_pc = "image" =>
        /\ (m_result.exc = NoExc /\ ~IsNone(m_result.orientation)) =>
               Get(m_result.orientation) \in 1..8
        /\ (/\ ~m_settings.show_timestamps
            /\ HasTag(m_metadata, "Exif.Image.Orientation") =>
                   ~m_metadata["Exif.Image.Orientation"].str.digits) =>
               m_result.exc = NoExc /\ IsNone(m_result.orientation)

(***************************************************************************)
(* The settings of the albums of a gallery (SpecGallery).                  *)
(***************************************************************************)
IsWellFormed(settings_file) == settings_file.exists /\ ~IsNone(settings_file.table)

NeverInherited == {"title", "output_directory_name"}

\* The settings of an album against its album.toml table and the settings
\* the gallery had when the album was generated.
Inherits(album_settings, table, gallery_settings) ==
    /\ \A attr \in DOMAIN PageSettings :
           /\ attr \in DOMAIN table => album_settings[attr] = table[attr]
           /\ (attr \notin DOMAIN table /\ attr \notin NeverInherited) =>
                  album_settings[attr] = gallery_settings[attr]
    /\ "title" \notin DOMAIN table => IsNone(album_settings.title)
    /\ "output_directory_name" \notin DOMAIN table =>
           album_settings.output_directory_name # gallery_settings.output_directory_name

\* C19: when create_gallery generates an album, each setting of the album
\* whose key album.toml has is the value album.toml gives, each other one is
\* the gallery's, except that title and output_directory_name are never the
\* gallery's; and no step of create_gallery changes the gallery's settings.
C19_AlbumInherits ==
    [][g_pc = "albums" =>
           /\ g_settings' = g_settings
           /\ (Len(g_subdirs') = Len(g_subdirs) + 1 /\ IsWellFormed(g_subdirs'[Len(g_subdirs')])) =>
                  Inherits(Get(g_album_settings'[Len(g_subdirs')]),
                           Get(g_subdirs'[Len(g_subdirs')].table), g_settings)]_vars

\* A gallery titled "A" whose albums are public, and an album with an empty
\* album.toml: public, and without a title.
C19_Witness ==
    /\ g_pc = "albums"
    /\ g_settings.title = Some("A") /\ g_settings.is_public
    /\ g_settings.output_directory_name = Some("x")
    /\ Len(g_subdirs) = 2
    /\ g_subdirs[1] = SettingsFile(TRUE, Some(<<>>))
    /\ Get(g_album_settings[1]).is_public
    /\ IsNone(Get(g_album_settings[1]).title)
    /\ g_subdirs[2] = SettingsFile(TRUE, Some(AlbumValueOf))
    /\ ~Get(g_album_settings[2]).is_public
    /\ Get(g_album_settings[2]).title = Some("B")

\* C20: the output directory name of an album is the output_directory_name
\* of its album.toml if it has one and otherwise the SHA-256 digest of the
\* name of its directory, whatever the directory's parent, the gallery's
\* settings and the albums before it.
C20_OutputDirectoryName ==
    \A j \in 1..Len(g_subdirs) :
        IsWellFormed(g_subdirs[j]) =>
            Get(g_album_settings[j]).output_directory_name =
                IF "output_directory_name" \in DOMAIN Get(g_subdirs[j].table)
                THEN Get(g_subdirs[j].table)["output_directory_name"]
                ELSE Some(sha256(AlbumName(j)))

\* In the second directory of main, after a gallery named "x": a first album
\* named by its album.toml and a second one named by the digest.
C20_Witness ==
    /\ g_pc = "albums" /\ g_i = 2
    /\ g_settings.output_directory_name = Some("x")
    /\ Len(g_subdirs) = 2
    /\ g_subdirs[1] = SettingsFile(TRUE, Some(AlbumValueOf))
    /\ Get(g_album_settings[1]).output_directory_name = Some("y")
    /\ IsWellFormed(g_subdirs[2])
    /\ Get(g_album_settings[2]).output_directory_name = Some(sha256(AlbumName(2)))

(***************************************************************************)
(* The order of the album (SpecSort).                                      *)
(***************************************************************************)
\* The place of a file of the album in the listing of the directory.
Discovered(file) == CHOOSE i \in 1..Len(a_dir) : a_dir[i].name = file.filename

HasTimestamp(file) == ~IsNone(file.metadata.timestamp)

InstantOf(file) == Utc(Get(file.metadata.timestamp))

SameKey(x, y) ==
    \/ ~HasTimestamp(x) /\ ~HasTimestamp(y)
    \/ HasTimestamp(x) /\ HasTimestamp(y) /\ InstantOf(x) = InstantOf(y)

ExpectedAlt(file) ==
    IF ~IsNone(file.metadata.title) THEN file.metadata.title ELSE Some(file.filename)

\* C22: in index.html the alt text of an image, of its thumbnail in <nav>
\* and of its detail entry, is its title if it has one and its file name
\* otherwise.
C22_AltText ==
    (a_pc = "done" /\ ~IsNone(a_page)) =>
        \A i \in 1..Len(a_files) :
            a_files[i].kind = "image" =>
                /\ Get(a_page).details[i].alt = ExpectedAlt(a_files[i])
                /\ Get(a_page).thumbnails[i].alt = ExpectedAlt(a_files[i])

(***************************************************************************)
(* The albums of a gallery and their identity (SpecGallery).               *)
(***************************************************************************)
\* The is_public of the j-th subdirectory: that of its album.toml, or the
\* gallery's.
ResolvedPublic(j) ==
    IF "is_public" \in DOMAIN Get(g_subdirs[j].table)
    THEN Get(g_subdirs[j].table)["is_public"]
    ELSE g_settings.is_public

\* C23: the albums that create_gallery has collected are, in the order of
\* the glob and once each, the subdirectories generated without error whose
\* is_public, their own or the gallery's, is true; a private album is
\* generated all the same.
C23_PublicAlbums ==
    /\ \A j \in 1..Len(g_subdirs) :
           /\ IsWellFormed(g_subdirs[j]) =>
                  /\ j \in g_generated
                  /\ IsAlbumOfGallery(j) <=> ResolvedPublic(j)
           /\ ~IsWellFormed(g_subdirs[j]) => ~IsAlbumOfGallery(j)
    /\ \A a, b \in 1..Len(g_albums) : a < b => g_albums[a].path < g_albums[b].path
    /\ \A a \in 1..Len(g_albums) : g_albums[a].path \in 1..Len(g_subdirs)

\* A gallery of public albums: the first album inherits that, the second
\* is private by its album.toml, the third has no album.toml that can be read.
C23_Witness ==
    /\ g_pc = "albums"
    /\ g_settings.is_public
    /\ Len(g_subdirs) = 3
    /\ g_subdirs[1] = SettingsFile(TRUE, Some(<<>>))
    /\ g_subdirs[2] = SettingsFile(TRUE, Some(AlbumValueOf))
    /\ IsMalformed(g_subdirs[3])
    /\ g_generated = {1, 2}
    /\ Len(g_albums) = 1 /\ g_albums[1].path = 1

\* C24: an album whose read_settings succeeded has a title and an
\* output_directory_name, whatever its album.toml sets.
C24_AlbumIdentity ==
    \A j \in 1..Len(g_subdirs) :
        IsWellFormed(g_subdirs[j]) =>
            /\ ~IsNone(Get(g_album_settings[j]).title)
            /\ ~IsNone(Get(g_album_settings[j]).output_directory_name)

(***************************************************************************)
(* The fit as one scaling (SpecFit).                                       *)
(***************************************************************************)
\* The scales that bound the fit, as fractions <<numerator, denominator>>.
Scales(width, height, max_width, max_height) ==
    {<<1, 1>>}
    \cup (IF IsNone(max_width) THEN {} ELSE {<<Get(max_width), width>>})
    \cup (IF IsNone(max_height) THEN {} ELSE {<<Get(max_height), height>>})

\* min(1, max_width / width, max_height / height)
LeastScale(scales) == CHOOSE s \in scales : \A t \in scales : s[1] * t[2] <= t[1] * s[2]

SingleScaleFit(width, height, max_width, max_height) ==
    LET s == LeastScale(Scales(width, height, max_width, max_height))
    IN  <<(width * s[1]) \div s[2], (height * s[1]) \div s[2]>>

\* The two passes with the height check first, in exact arithmetic.
HeightFirstFit(width, height, max_width, max_height) ==
    <<TwoPassFit(height, width, max_height, max_width)[2],
      TwoPassFit(height, width, max_height, max_width)[1]>>

FitsBox ==
    /\ ~IsNone(f_max_width) => f_result[1] <= Get(f_max_width)
    /\ ~IsNone(f_max_height) => f_result[2] <= Get(f_max_height)
    /\ f_result[1] <= f_width
    /\ f_result[2] <= f_height

\* C25: the result of fit_to_dimensions is within both bounds and within the
\* source size, and is the source size scaled once by
\* min(1, max_width/width, max_height/height) and floored, which is also what
\* checking the height before the width gives.
C25_FitIsSingleScale ==
    f_pc = "fitted" =>
        /\ FitsBox
        /\ f_result = SingleScaleFit(f_width, f_height, f_max_width, f_max_height)
        /\ f_result = HeightFirstFit(f_width, f_height, f_max_width, f_max_height)

\* C26: the image that process_image_file goes on with after
\* "if final_height != image.height: resize" has the fitted size, that is,
\* it is resized exactly when the fitted size is not the source size: no
\* fitted width differs from the source width while the fitted height is the
\* source height.
C26_ResizeIffSizeDiffers ==
    f_pc = "fitted" =>
        /\ resized(f_width, f_height, f_result) = f_result
        /\ f_result[1] # f_width => f_result[2] # f_height

\* 4 x 2 under max_width 2: fitted to 2 x 1 and resized.
C26_Witness ==
    /\ f_pc = "fitted"
    /\ f_width = 4 /\ f_height = 2
    /\ f_max_width = Some(2) /\ IsNone(f_max_height)
    /\ f_result = <<2, 1>>
    /\ resized(f_width, f_height, f_result) = <<2, 1>>

(***************************************************************************)
(* The order of the writes of process_image_file (Spec).                   *)
(***************************************************************************)
\* The orientation tag of a source image as get_image_metadata reads it.
TagOf(f) == IF CodeOf(f) = 0 THEN None ELSE Some(CodeOf(f))

\* C27: the full-size file of an image is written, and stripped of its GPS
\* tags if strip_gps_data is set, before the thumbnail, which is the next
\* write; the full-size file has the fitted size of the image as stored,
\* not turned and not padded, and keeps the orientation tag.
C27_PipelineOrder ==
    \A i \in 1..Len(a_dir) :
        (is_image_file(a_dir[i].name) /\ ThumbnailPath(a_dir[i].name) \in DOMAIN a_out) =>
            /\ GalleryPath(a_dir[i].name) \in DOMAIN a_out
            /\ LET f == a_dir[i]
                   saved == a_out[GalleryPath(f.name)]
                   thumbnail == a_out[ThumbnailPath(f.name)]
               IN  /\ thumbnail.at = saved.at + 1
                   /\ saved.writes = (IF a_settings.strip_gps_data THEN 2 ELSE 1) * thumbnail.writes
                   /\ a_settings.strip_gps_data => ~saved.gps
                   /\ saved.paste = <<>>
                   /\ saved.orientation = TagOf(f)
                   /\ <<saved.w, saved.h>> =
                          resized(f.w, f.h,
                                  final_size(a_settings, f, is_sideways_orientation(TagOf(f))))
                   /\ <<thumbnail.paste[3], thumbnail.paste[4]>> =
                          thumbnail_size(a_settings,
                              oriented_size(<<saved.w, saved.h>>,
                                            is_sideways_orientation(TagOf(f))))

\* A 4 x 2 image with code 6, GPS stripping on: saved as 4 x 2 with its tag
\* in two writes, then the thumbnail of the turned image, 2 x 4.
C27_Witness ==
    /\ a_pc = "done" /\ a_run = 1
    /\ a_settings.strip_gps_data
    /\ Len(a_dir) = 1 /\ CodeOf(a_dir[1]) = 6
    /\ ThumbnailPath(a_dir[1].name) \in DOMAIN a_out
    /\ a_out[GalleryPath(a_dir[1].name)].w = 4 /\ a_out[GalleryPath(a_dir[1].name)].h = 2
    /\ a_out[GalleryPath(a_dir[1].name)].writes = 2
    /\ a_out[GalleryPath(a_dir[1].name)].at = 2
    /\ a_out[ThumbnailPath(a_dir[1].name)].at = 3
    /\ a_out[ThumbnailPath(a_dir[1].name)].paste[3] = 2
    /\ a_out[ThumbnailPath(a_dir[1].name)].paste[4] = 4

(***************************************************************************)
(* The output paths of the albums of a gallery (SpecGallery).              *)
(***************************************************************************)
\* self.output_base_path.joinpath(self.settings.output_directory_name), the
\* base being the gallery's output path for every album of the gallery
OutputPathOf(j) == Get(g_album_settings[j]).output_directory_name

HasDerivedName(j) == "output_directory_name" \notin DOMAIN Get(g_subdirs[j].table)

\* Of the names of the model, a configured one is no digest.
SamePath(j, k) == HasDerivedName(j) = HasDerivedName(k) /\ OutputPathOf(j) = OutputPathOf(k)

\* C28: two different subdirectories of a gallery whose albums were
\* generated never have the same output path.
C28_OutputPathsDistinct ==
    \A j, k \in 1..Len(g_subdirs) :
        (j # k /\ IsWellFormed(g_subdirs[j]) /\ IsWellFormed(g_subdirs[k])) =>
            ~SamePath(j, k)

(***************************************************************************)
(* The URLs of the files of an album (SpecNames).                          *)
(***************************************************************************)
\* C29: two different media files of a directory get records with
\* different URLs and with different thumbnail URLs.
C29_UrlsDistinct ==
    \A i, j \in 1..Len(a_files) :
        a_files[i].filename # a_files[j].filename =>
            /\ a_files[i].url # a_files[j].url
            /\ a_files[i].thumbnail_url # a_files[j].thumbnail_url


\* C30: in the earlier generator the thumbnail pasted on the canvas is no
\* larger than the canvas on either axis and is pasted at an offset that is
\* not negative, for every source size, orientation and canvas, square or
\* not.
C30_ThumbnailWithinCanvas ==
    e_pc = "pasted" =>
        /\ e_thumbnail[1] <= e_thumbnail_width
        /\ e_thumbnail[2] <= e_thumbnail_height
        /\ e_position[1] >= 0
        /\ e_position[2] >= 0

\* The same on a square canvas, and on any canvas for an image that is not
\* sideways.
ThumbnailWithinSquareCanvas ==
    e_pc = "pasted"
        /\ (e_thumbnail_width = e_thumbnail_height
                \/ ~is_sideways_orientation_name(e_orientation)) =>
        /\ e_thumbnail[1] <= e_thumbnail_width
        /\ e_thumbnail[2] <= e_thumbnail_height
        /\ e_position[1] >= 0
        /\ e_position[2] >= 0

====
